---- MODULE Spec2Model ----
(***************************************************************************)
(* A model of the query-manager family of lil-sandbox:                     *)
(*   - the query store (setQuery / getQuery / subscribeQuery),             *)
(*   - the text normalizers and the match locator (getMarkedHTML),          *)
(*   - the DOM highlighter (resetHighlights / highlightMatches),            *)
(*   - the mixinQuerySync targets built on top of them,                     *)
(* and of two more components of the repository: submitFormToEndpoint and  *)
(* <my-collapse-list>.                                                     *)
(*                                                                         *)
(* Strings are sequences of one-character strings.  JavaScript values that *)
(* may be undefined are records tagged by the field js.                    *)
(***************************************************************************)
EXTENDS Integers, Sequences, FiniteSets, TLC

VARIABLES
  queryStore,      \* Map key -> value                    (query-manager.js:4)
  listeners,       \* Map key -> Set of callbacks         (query-manager.js:5)
  queryOptions,    \* Map key -> options                  (query-manager.js:6)
  unsubs,          \* the unsubscribe functions subscribeQuery has returned
  calls,           \* store history: what the last store operation did
  normalizationCache, \* Map cacheKey -> string           (query-manager.js:7)
  normalizerPresets,  \* preset name -> list of functions (query-manager.js:48)
  dom,             \* the container handed to the highlighter
  pass,            \* highlighter history: what the last highlighter call did
  locate,          \* one call of getMarkedHTML: its arguments and what it computed
  targets,         \* the mixinQuerySync target elements of the page
  sources,         \* the mixinQuerySync source elements of the page
  form,            \* one call of submitFormToEndpoint and the form it made
  collapse,        \* a <my-collapse-list> and its <my-collapse-item> children
  display          \* an <animated-display> in queue mode and the show() calls made on it

storeVars == <<queryStore, listeners, queryOptions, unsubs, calls>>
hlVars    == <<normalizationCache, normalizerPresets, dom, pass>>
vars      == <<queryStore, listeners, queryOptions, unsubs, calls,
              normalizationCache, normalizerPresets, dom, pass, locate, targets, sources, form, collapse, display>>

----------------------------------------------------------------------------
(* JavaScript values *)

Undefined == [js |-> "undefined"]
Str(s)    == [js |-> "string", s |-> s]

(* options.normalizers: undefined, a preset name, one function, or an array
   of preset names and functions *)
NoNormalizers     == [js |-> "undefined"]
PresetSpec(name)  == [js |-> "string", name |-> name]
FunctionSpec(fn)  == [js |-> "function", fn |-> fn]
ArraySpec(items)  == [js |-> "array", items |-> items]

(* the options object of a highlight call *)
Options(split, exact, norm) ==
  [js |-> "object", splitWords |-> split, exactMatch |-> exact, normalizers |-> norm]

\* String.prototype.trim on the model's alphabet: only " " is white space.
RECURSIVE trim(_)
trim(s) ==
  IF s = <<>> THEN s
  ELSE IF Head(s) = " " THEN trim(Tail(s))
  ELSE IF s[Len(s)] = " " THEN trim(SubSeq(s, 1, Len(s) - 1))
  ELSE s

\* a test that takes only the missing query for blank
BlankIfMissing(q) == q.js = "undefined"

\* !query?.trim()  (query-manager.js:95, :226)
IsBlank(q) == IF q.js = "undefined" THEN TRUE ELSE trim(q.s) = <<>>

\* JavaScript truthiness of a string-or-undefined value (query-manager.js:236)
Truthy(q) == q.js = "string" /\ q.s # <<>>

----------------------------------------------------------------------------
(* The query store (query-manager.js:4-43).  The three Maps are read with
   get alone, so a Map is a function that gives undefined (for listeners: no
   subscriber) at every key never set.  A Set of callbacks is the sequence
   of its members in insertion order, the order forEach follows. *)

StoreKeys == {"k1", "k2"}
Callbacks == {"cb1", "cb2"}
StoreValues == {Str(<<"a">>), Str(<<"b">>)}
OptionsA == Options(TRUE, FALSE, NoNormalizers)
OptionsB == Options(FALSE, TRUE, NoNormalizers)
StoreOptions == {Undefined, OptionsA, OptionsB}

\* getQuery(key), getQueryOptions(key) (query-manager.js:33-34)
getQuery(key) == queryStore[key]
getQueryOptions(key) == queryOptions[key]

\* a Set that takes the callback once more
ArrayPush(subs, cb) == Append(subs, cb)

\* Set.prototype.add (query-manager.js:41)
SetAdd(subs, cb) ==
  IF \E i \in 1..Len(subs) : subs[i] = cb THEN subs ELSE Append(subs, cb)

\* listeners.delete(key) in place of the callback's removal
DropAll(subs, cb) == <<>>

\* Set.prototype.delete (query-manager.js:42)
SetDelete(subs, cb) ==
  IF \E i \in 1..Len(subs) : subs[i] = cb
    THEN LET i == CHOOSE x \in 1..Len(subs) : subs[x] = cb /\ \A y \in 1..(x - 1) : subs[y] # cb
         IN SubSeq(subs, 1, i - 1) \o SubSeq(subs, i + 1, Len(subs))
    ELSE subs

\* the options argument handed on as it came
ArgumentOptions(stored, options) == options

\* queryOptions after "if (options) queryOptions.set(key, options)"
StoredOptions(stored, options) == IF options.js = "undefined" THEN stored ELSE options

\* a notification that goes to the subscribers of every key
NotifyEveryKey(subs, value, options) ==
  [i \in 1..Len(listeners["k1"] \o listeners["k2"]) |->
     [cb |-> (listeners["k1"] \o listeners["k2"])[i], value |-> value, options |-> options]]

\* a forEach that runs from the last member to the first
NotifyBackwards(subs, value, options) ==
  [i \in 1..Len(subs) |-> [cb |-> subs[Len(subs) + 1 - i], value |-> value, options |-> options]]

\* subs.forEach(cb => cb(value, queryOptions.get(key))): the calls made, in order
Notify(subs, value, options) ==
  [i \in 1..Len(subs) |-> [cb |-> subs[i], value |-> value, options |-> options]]

NoCall == [op |-> "none", key |-> "k1", cb |-> "cb1", value |-> Undefined,
           options |-> Undefined, invoked |-> <<>>, second |-> FALSE,
           renewed |-> FALSE, st |-> "ok", undone |-> FALSE, source |-> "none"]

NoArgs == [set |-> FALSE, value |-> Undefined, options |-> Undefined, given |-> Undefined]

InitStoreOn(keys) ==
  /\ queryStore = [k \in keys |-> Undefined]
  /\ listeners = [k \in keys |-> <<>>]
  /\ queryOptions = [k \in keys |-> Undefined]
  /\ unsubs = [h \in {} |-> "fresh"]
  /\ calls = [last |-> NoCall, args |-> [k \in keys |-> NoArgs]]

InitStore == InitStoreOn(StoreKeys)

\* setQuery(key, value, options) (query-manager.js:23-28) with callbacks that
\* leave the store alone
SetQuery(key, value, options) ==
  /\ queryStore' = [queryStore EXCEPT ![key] = value]
  /\ queryOptions' = [queryOptions EXCEPT ![key] = StoredOptions(@, options)]
  /\ calls' = [last |-> [NoCall EXCEPT !.op = "setQuery", !.key = key, !.value = value,
                           !.options = options,
                           !.invoked = Notify(listeners[key], value, queryOptions'[key])],
               args |-> [calls.args EXCEPT ![key] =
                           [set |-> TRUE, value |-> value, options |-> options,
                            given |-> IF options.js = "undefined" THEN @.given ELSE options]]]
  /\ UNCHANGED <<listeners, unsubs>>

\* subscribeQuery(key, callback) (query-manager.js:39-43)
SubscribeQuery(key, cb) ==
  /\ listeners' = [listeners EXCEPT ![key] = SetAdd(@, cb)]
  /\ unsubs' = IF <<key, cb>> \in DOMAIN unsubs
                 THEN [unsubs EXCEPT ![<<key, cb>>] = IF @ = "called" THEN "renewed" ELSE @]
                 ELSE unsubs @@ (<<key, cb>> :> "fresh")
  /\ calls' = [calls EXCEPT !.last = [NoCall EXCEPT !.op = "subscribeQuery", !.key = key, !.cb = cb]]
  /\ UNCHANGED <<queryStore, queryOptions>>

\* a call of the function subscribeQuery(key, cb) returned first
\*   unsubs[<<key, cb>>] is "fresh" until that function is called, "called"
\*   afterwards, and "renewed" once cb was subscribed to key again after that
Unsubscribe(key, cb) ==
  /\ <<key, cb>> \in DOMAIN unsubs
  /\ listeners' = [listeners EXCEPT ![key] = SetDelete(@, cb)]
  /\ unsubs' = [unsubs EXCEPT ![<<key, cb>>] = "called"]
  /\ calls' = [calls EXCEPT !.last = [NoCall EXCEPT !.op = "unsubscribe", !.key = key, !.cb = cb,
                                        !.second = unsubs[<<key, cb>>] # "fresh",
                                        !.renewed = unsubs[<<key, cb>>] = "renewed"]]
  /\ UNCHANGED <<queryStore, queryOptions>>

----------------------------------------------------------------------------
(* Characters *)

LowerLetters == {"a", "b", "e", "l", "m", "n", "o", "p", "s", "t", "y"}
UpperLetters == {"A", "B"}

toLowerCase(c) == CASE c = "A" -> "a" [] c = "B" -> "b" [] OTHER -> c

\* \w of a RegExp without the u flag: ASCII letters, digits and _
IsWordChar(c) == c \in (LowerLetters \cup UpperLetters)

\* comparison of two characters under the RegExp i flag
SameCharI(c, d) == toLowerCase(c) = toLowerCase(d)

\* s.replace(/c/g, r) for a single character c and replacement string r
ReplaceAll(s, c, r) ==
  LET f[i \in 0..Len(s)] ==
        IF i = 0 THEN <<>>
        ELSE f[i - 1] \o (IF s[i] = c THEN r ELSE <<s[i]>>)
  IN f[Len(s)]

\* s.normalize('NFD'): a precomposed umlaut becomes letter + combining mark
NFD(s) == ReplaceAll(s, "ä", <<"a", "¨">>)

\* s.replace(/\p{Diacritic}/gu, '')
StripDiacritics(s) == ReplaceAll(s, "¨", <<>>)

\* s.replace(/[^a-z0-9]/gi, '')
StripNonAlnum(s) == SelectSeq(s, IsWordChar)

LowerCase(s) == [i \in 1..Len(s) |-> toLowerCase(s[i])]

\* one normalizer function, named by an identifier
ApplyStep(fn, s) ==
  CASE fn = "defaultNormalize" ->
         LowerCase(ReplaceAll(ReplaceAll(ReplaceAll(ReplaceAll(
           StripDiacritics(NFD(s)), "ß", <<"s", "s">>), "ä", <<"a", "e">>),
           "ö", <<"o", "e">>), "ü", <<"u", "e">>))
    [] fn = "strict1" -> NFD(s)
    [] fn = "strict2" -> StripDiacritics(s)
    [] fn = "strict3" -> ReplaceAll(s, "ß", <<"s", "s">>)
    [] fn = "strict4" -> ReplaceAll(s, "ä", <<"a", "e">>)
    [] fn = "strict5" -> ReplaceAll(s, "ö", <<"o", "e">>)
    [] fn = "strict6" -> ReplaceAll(s, "ü", <<"u", "e">>)
    [] fn = "strict7" -> StripNonAlnum(s)
    [] fn = "strict8" -> LowerCase(s)
    [] fn = "aToO"    -> ReplaceAll(s, "a", <<"o">>)
    [] fn = "bToA"    -> ReplaceAll(s, "b", <<"a">>)
    [] OTHER          -> s

\* Function.prototype.name: only the declared function has one; arrow
\* functions written as array elements are anonymous.
FnName(fn) == IF fn = "defaultNormalize" THEN "defaultNormalize" ELSE ""

\* the presets the module is loaded with (query-manager.js:48-60)
InitialPresets ==
  [default |-> <<"defaultNormalize">>,
   strict  |-> <<"strict1", "strict2", "strict3", "strict4",
                 "strict5", "strict6", "strict7", "strict8">>]

PresetNames == {"default", "strict"}

\* resolveNormalizers(input) against the preset registry
resolveNormalizers(presets, input) ==
  CASE input.js = "undefined" -> presets.default
    [] input.js = "string" ->
         IF input.name \in DOMAIN presets THEN presets[input.name] ELSE presets.default
    [] input.js = "function" -> <<input.fn>>
    [] input.js = "array" ->
         LET f[i \in 0..Len(input.items)] ==
               IF i = 0 THEN <<>>
               ELSE f[i - 1] \o
                    (LET item == input.items[i] IN
                     IF item.js = "string" /\ item.name \in DOMAIN presets
                       THEN presets[item.name]
                     ELSE IF item.js = "function" THEN <<item.fn>>
                     ELSE <<>>)
         IN f[Len(input.items)]
    [] OTHER -> presets.default

\* normalizers.reduce((acc, fn) => fn(acc), str)
Reduce(normalizers, str) ==
  LET f[i \in 0..Len(normalizers)] ==
        IF i = 0 THEN str ELSE ApplyStep(normalizers[i], f[i - 1])
  IN f[Len(normalizers)]

\* normalizers.map(fn => fn.name || '[anon]').join('|') + '::' + str
CacheKey(normalizers, str) ==
  <<[i \in 1..Len(normalizers) |->
       IF FnName(normalizers[i]) = "" THEN "[anon]" ELSE FnName(normalizers[i])],
    str>>

\* applyNormalizers(str, normalizers): the value it returns with the cache as given
applyNormalizers(cache, str, normalizers) ==
  IF CacheKey(normalizers, str) \in DOMAIN cache
    THEN cache[CacheKey(normalizers, str)]
    ELSE Reduce(normalizers, str)

\* the cache after applyNormalizers was called for every string of strs
CacheAfter(cache, strs, normalizers) ==
  LET keys == {CacheKey(normalizers, s) : s \in strs} \ DOMAIN cache
  IN cache @@ [k \in keys |-> Reduce(normalizers, k[2])]

----------------------------------------------------------------------------
(* The match locator *)

\* new RegExp(pattern, 'gi') throws a SyntaxError on an unbalanced group
RegExpThrows(term) == \E i \in 1..Len(term) : term[i] = "("

\* does the pattern match normText at the 0-based offset i
MatchAt(normText, term, exact, i) ==
  /\ i + Len(term) <= Len(normText)
  /\ \A j \in 1..Len(term) : SameCharI(normText[i + j], term[j])
  /\ exact =>
       /\ (i = 0 \/ ~IsWordChar(normText[i]))
       /\ (i + Len(term) = Len(normText) \/ ~IsWordChar(normText[i + Len(term) + 1]))

\* while ((m = re.exec(normText)) !== null) never ends when the pattern has an
\* empty match: exec leaves lastIndex where it was
ExecDiverges(normText, term, exact) ==
  /\ term = <<>>
  /\ \E i \in 0..Len(normText) : MatchAt(normText, term, exact, i)

\* the matches one term pushes, scanning from lastIndex
RECURSIVE ExecAll(_, _, _, _)
ExecAll(normText, term, exact, lastIndex) ==
  LET found == {i \in lastIndex..Len(normText) : MatchAt(normText, term, exact, i)}
  IN IF found = {} THEN <<>>
     ELSE LET i == CHOOSE x \in found : \A y \in found : x <= y
          IN <<[index |-> i, length |-> Len(term)]>>
               \o ExecAll(normText, term, exact, i + Len(term))

\* the for-of loop over the terms (query-manager.js:179-186): the matches in
\* push order, or the way the loop fails to complete
RECURSIVE CollectMatches(_, _, _)
CollectMatches(normText, terms, exact) ==
  IF terms = <<>> THEN [st |-> "ok", matches |-> <<>>]
  ELSE IF RegExpThrows(Head(terms)) THEN [st |-> "throw", matches |-> <<>>]
  ELSE IF ExecDiverges(normText, Head(terms), exact) THEN [st |-> "diverge", matches |-> <<>>]
  ELSE LET rest == CollectMatches(normText, Tail(terms), exact)
       IN [st |-> rest.st,
           matches |-> ExecAll(normText, Head(terms), exact, 0) \o rest.matches]

\* matches.sort((a, b) => a.index - b.index): a stable sort
SortByIndex(matches) ==
  LET Insert(sorted, m) ==
        LET k == Cardinality({j \in 1..Len(sorted) : sorted[j].index <= m.index})
        IN SubSeq(sorted, 1, k) \o <<m>> \o SubSeq(sorted, k + 1, Len(sorted))
      f[i \in 0..Len(matches)] ==
        IF i = 0 THEN <<>> ELSE Insert(f[i - 1], matches[i])
  IN f[Len(matches)]

\* a filter that lets every match through
AcceptsAll(m, lastEnd) == TRUE

\* if (m.index >= lastEnd) (query-manager.js:192)
Accepts(m, lastEnd) == m.index >= lastEnd

\* the greedy filter of query-manager.js:189-196
NonOverlapping(sorted) ==
  LET f[i \in 0..Len(sorted)] ==
        IF i = 0 THEN [acc |-> <<>>, lastEnd |-> 0]
        ELSE IF Accepts(sorted[i], f[i - 1].lastEnd)
          THEN [acc |-> Append(f[i - 1].acc, sorted[i]),
                lastEnd |-> sorted[i].index + sorted[i].length]
          ELSE f[i - 1]
  IN f[Len(sorted)].acc

\* String.prototype.substring(a, b) with 0-based offsets: clamps and swaps
substring(s, a, b) ==
  LET Clamp(x) == IF x < 0 THEN 0 ELSE IF x > Len(s) THEN Len(s) ELSE x
      lo == IF Clamp(a) <= Clamp(b) THEN Clamp(a) ELSE Clamp(b)
      hi == IF Clamp(a) <= Clamp(b) THEN Clamp(b) ELSE Clamp(a)
  IN SubSeq(s, lo + 1, hi)

\* a pattern that is the bare term whatever exactMatch says
NoLookaround(exact) == FALSE

\* the pattern getMarkedHTML builds for a term (query-manager.js:180)
UsesLookaround(exact) == exact

\* the matches a text node gave, sorted (query-manager.js:188) and filtered
\* (query-manager.js:189-196)
sortedAndFiltered(normText, found) ==
  [st |-> found.st, normText |-> normText,
   matches |-> IF found.st = "ok" THEN SortByIndex(found.matches) ELSE <<>>,
   ranges |-> IF found.st = "ok" THEN NonOverlapping(SortByIndex(found.matches))
              ELSE <<>>]

\* lines 178-196 of getMarkedHTML on the normalized text
rangesIn(normText, terms, exact) ==
  sortedAndFiltered(normText, CollectMatches(normText, terms, UsesLookaround(exact)))

\* the ranges getMarkedHTML accepts for one text node
acceptedRanges(cache, text, terms, exact, normalizers) ==
  rangesIn(applyNormalizers(cache, text, normalizers), terms, exact)

\* lines 198-207 of getMarkedHTML: the markup built from the accepted ranges,
\* cut out of the original text
buildResult(text, ranges) ==
  LET f[i \in 0..Len(ranges)] ==
        IF i = 0 THEN [result |-> <<>>, cursor |-> 0]
        ELSE LET rawStart == ranges[i].index
                 rawMatch == substring(text, rawStart, rawStart + ranges[i].length)
             IN [result |-> f[i - 1].result
                              \o substring(text, f[i - 1].cursor, rawStart)
                              \o <<"<mark>">> \o rawMatch \o <<"</mark>">>,
                 cursor |-> rawStart + Len(rawMatch)]
      end    == f[Len(ranges)]
      result == end.result \o substring(text, end.cursor, Len(text))
  IN IF result = <<>> THEN text ELSE result

\* what getMarkedHTML returns once the ranges r are known
markedHTML(text, r) == [st |-> r.st, html |-> buildResult(text, r.ranges)]

\* getMarkedHTML(text, terms, exact, normalizers): the markup, a sequence of
\* characters and <mark> tags, or the way the call fails to return
getMarkedHTML(cache, text, terms, exact, normalizers) ==
  markedHTML(text, acceptedRanges(cache, text, terms, exact, normalizers))

----------------------------------------------------------------------------
(* The DOM: a content is a sequence of nodes.  A node is a text node, a
   <mark>, a plain element <b>, or an element carrying data-highlight.  The
   entry originalHTMLCache keeps for an element is the field orig of that
   element: a WeakMap keyed by identity lives and dies with its key. *)

Text(s)         == [t |-> "text", s |-> s, c |-> <<>>, orig |-> Undefined]
Mark(c)         == [t |-> "mark", s |-> <<>>, c |-> c, orig |-> Undefined]
Plain(c)        == [t |-> "b", s |-> <<>>, c |-> c, orig |-> Undefined]
Highlight(c)    == [t |-> "div", s |-> <<>>, c |-> c, orig |-> Undefined]

OpenTag(t)  == CASE t = "mark" -> "<mark>" [] t = "b" -> "<b>"
                 [] OTHER -> "<div data-highlight>"
CloseTag(t) == CASE t = "mark" -> "</mark>" [] t = "b" -> "</b>" [] OTHER -> "</div>"
OpenTags    == {"<mark>", "<b>", "<div data-highlight>"}
CloseTags   == {"</mark>", "</b>", "</div>"}
TagOf(tok)  == CASE tok = "<mark>" -> "mark" [] tok = "<b>" -> "b" [] OTHER -> "div"

\* the characters of a text as the HTML serializer writes them: & as &amp;
\* and < as &lt;
escapeText(s) ==
  ReplaceAll(ReplaceAll(s, "&", <<"&", "a", "m", "p", ";">>), "<", <<"&", "l", "t", ";">>)

\* the characters the HTML parser makes of a run of text: the character
\* references &amp; and &lt; become & and <
RECURSIVE decodeText(_)
decodeText(s) ==
  IF s = <<>> THEN <<>>
  ELSE IF Len(s) >= 5 /\ SubSeq(s, 1, 5) = <<"&", "a", "m", "p", ";">>
    THEN <<"&">> \o decodeText(SubSeq(s, 6, Len(s)))
  ELSE IF Len(s) >= 4 /\ SubSeq(s, 1, 4) = <<"&", "l", "t", ";">>
    THEN <<"<">> \o decodeText(SubSeq(s, 5, Len(s)))
  ELSE <<Head(s)>> \o decodeText(Tail(s))

\* the tree the parser built, its runs of text decoded
RECURSIVE decodeEntities(_)
decodeEntities(content) ==
  [i \in 1..Len(content) |->
     IF content[i].t = "text" THEN [content[i] EXCEPT !.s = decodeText(@)]
     ELSE [content[i] EXCEPT !.c = decodeEntities(@)]]

\* the innerHTML getter: the markup of a content
RECURSIVE innerHTML(_)
innerHTML(content) ==
  IF content = <<>> THEN <<>>
  ELSE LET n == Head(content)
       IN (IF n.t = "text" THEN escapeText(n.s)
           ELSE <<OpenTag(n.t)>> \o innerHTML(n.c) \o <<CloseTag(n.t)>>)
          \o innerHTML(Tail(content))

\* the innerHTML setter: the HTML parser run over a markup string.  Every
\* element it builds is a new one, unknown to originalHTMLCache.
parseHTML(html) ==
  LET AddChar(c, ch) ==
        IF c # <<>> /\ c[Len(c)].t = "text"
          THEN [c EXCEPT ![Len(c)].s = Append(@, ch)]
          ELSE Append(c, Text(<<ch>>))
      Close(stack) ==
        LET top  == stack[Len(stack)]
            node == [t |-> top.t, s |-> <<>>, c |-> top.c, orig |-> Undefined]
        IN [SubSeq(stack, 1, Len(stack) - 1) EXCEPT ![Len(stack) - 1].c = Append(@, node)]
      f[i \in 0..Len(html)] ==
        IF i = 0 THEN <<[t |-> "root", c |-> <<>>]>>
        ELSE LET st == f[i - 1] tok == html[i]
             IN IF tok \in OpenTags THEN Append(st, [t |-> TagOf(tok), c |-> <<>>])
                ELSE IF tok \in CloseTags
                  THEN (IF Len(st) > 1 THEN Close(st) ELSE st)
                ELSE [st EXCEPT ![Len(st)].c = AddChar(@, tok)]
      RECURSIVE CloseAll(_)
      CloseAll(st) == IF Len(st) > 1 THEN CloseAll(Close(st)) ELSE st[1].c
  IN decodeEntities(CloseAll(f[Len(html)]))

\* originalHTMLCache.get(el) !== undefined
HasOriginal(el) == el.orig.js = "string"

\* an element left as it is
KeptContent(el) == el.c

\* what resetHighlights writes into a cached element (query-manager.js:78)
RestoredContent(el) == parseHTML(el.orig.s)

\* a reset that touches nothing
leaveHighlights(content) == content

\* resetHighlights(container) (query-manager.js:75-80).  The node list is
\* static: once an element got its markup back, the descendants the list
\* still names are detached and what is written to them is not in the tree.
RECURSIVE resetHighlights(_)
resetHighlights(content) ==
  [i \in 1..Len(content) |->
     LET n == content[i]
     IN IF n.t = "text" THEN n
        ELSE IF n.t = "div" /\ HasOriginal(n) THEN [n EXCEPT !.c = RestoredContent(n)]
        ELSE [n EXCEPT !.c = resetHighlights(n.c)]]

\* a snapshot loop that stores nothing
noSnapshots(content) == content

\* what the snapshot loop stores for an element (query-manager.js:90-92)
SnapshotOf(el) == IF HasOriginal(el) THEN el.orig ELSE Str(innerHTML(el.c))

\* the snapshot loop over querySelectorAll('[data-highlight]')
RECURSIVE takeSnapshots(_)
takeSnapshots(content) ==
  [i \in 1..Len(content) |->
     LET n == content[i]
     IN IF n.t = "text" THEN n
        ELSE IF n.t = "div"
          THEN [n EXCEPT !.orig = SnapshotOf(n), !.c = takeSnapshots(n.c)]
        ELSE [n EXCEPT !.c = takeSnapshots(n.c)]]

\* the state a highlight pass threads through the nodes it visits
\*   c: the content built so far, hit: hasMatch, st: "ok" or how the pass
\*   stopped, seen: the text-node strings handed to getMarkedHTML
Step0(seen) == [c |-> <<>>, hit |-> FALSE, st |-> "ok", seen |-> seen]

\* a pass in which an exception of node.replaceWith is not caught
uncaught(acc, n, m, throws) ==
  [c    |-> acc.c \o (IF m.st = "ok" /\ m.html # n.s /\ ~throws THEN parseHTML(m.html) ELSE <<n>>),
   hit  |-> acc.hit \/ (m.st = "ok" /\ m.html # n.s /\ ~throws),
   st   |-> IF m.st = "ok" /\ m.html # n.s /\ throws THEN "throw" ELSE m.st,
   seen |-> acc.seen \cup {n.s}]

\* the pass after getMarkedHTML gave m for the text node n
\* (query-manager.js:119-129); throws: node.replaceWith raises an exception
\* for this node, which the try/catch of lines 123-128 takes: the node stays
\* and hasMatch is not set
afterTextNode(acc, n, m, throws) ==
  LET replaced == m.st = "ok" /\ m.html # n.s /\ ~throws
  IN [c    |-> acc.c \o (IF replaced THEN parseHTML(m.html) ELSE <<n>>),
      hit  |-> acc.hit \/ replaced,
      st   |-> m.st,
      seen |-> acc.seen \cup {n.s}]

\* the pass after the nodes below the element n were visited
afterElement(acc, n, inner) == [inner EXCEPT !.c = Append(acc.c, [n EXCEPT !.c = inner.c])]

\* textNodes.forEach(...) for one [data-highlight] element: every text node
\* below it, in tree order (query-manager.js:104-130)
RECURSIVE markTextNodes(_, _, _)
markTextNodes(content, acc, env) ==
  IF content = <<>> \/ acc.st # "ok" THEN [acc EXCEPT !.c = acc.c \o content]
  ELSE IF Head(content).t = "text" /\ Head(content).s = <<>>
    THEN markTextNodes(Tail(content), [acc EXCEPT !.c = Append(acc.c, Head(content))], env)
  ELSE IF Head(content).t = "text"
    THEN markTextNodes(Tail(content),
           afterTextNode(acc, Head(content),
             getMarkedHTML(env.cache, Head(content).s, env.terms, env.exact, env.normalizers),
             Head(content).s \in env.fails),
           env)
  ELSE markTextNodes(Tail(content),
         afterElement(acc, Head(content),
           markTextNodes(Head(content).c, [acc EXCEPT !.c = <<>>], env)),
         env)

\* the callback of highlightEls.forEach for the element n
\* (query-manager.js:103-131); other elements are passed by
ownPass(n, acc, env) ==
  IF n.t = "div" THEN markTextNodes(n.c, [acc EXCEPT !.c = <<>>], env)
  ELSE [acc EXCEPT !.c = n.c]

\* highlightEls.forEach(...) (query-manager.js:103-131): the elements of the
\* static list in document order, an element before the ones nested in it
RECURSIVE forEachHighlightEl(_, _, _)
RECURSIVE nestedHighlightEls(_, _)
forEachHighlightEl(content, acc, env) ==
  IF content = <<>> \/ acc.st # "ok" THEN [acc EXCEPT !.c = acc.c \o content]
  ELSE IF Head(content).t = "text"
    THEN forEachHighlightEl(Tail(content), [acc EXCEPT !.c = Append(acc.c, Head(content))], env)
  ELSE forEachHighlightEl(Tail(content),
         afterElement(acc, Head(content),
           nestedHighlightEls(ownPass(Head(content), acc, env), env)),
         env)

\* the elements of the list that were below an element when the list was made
nestedHighlightEls(own, env) == forEachHighlightEl(own.c, [own EXCEPT !.c = <<>>], env)

\* query.split(/\s+/).filter(Boolean)
RECURSIVE splitWords(_)
splitWords(q) ==
  IF q = <<>> THEN <<>>
  ELSE IF Head(q) = " " THEN splitWords(Tail(q))
  ELSE LET stop == IF \E i \in 1..Len(q) : q[i] = " "
                     THEN (CHOOSE i \in 1..Len(q) : q[i] = " " /\ \A j \in 1..(i - 1) : q[j] # " ")
                     ELSE Len(q) + 1
       IN <<SubSeq(q, 1, stop - 1)>> \o splitWords(SubSeq(q, stop, Len(q)))

\* the terms of a call (query-manager.js:97-99)
termsOf(query, options) == IF options.splitWords THEN splitWords(query) ELSE <<query>>

normalizedTermsOf(cache, presets, query, options) ==
  LET terms == termsOf(query, options)
      normalizers == resolveNormalizers(presets, options.normalizers)
  IN [i \in 1..Len(terms) |-> applyNormalizers(cache, terms[i], normalizers)]

\* what a pass that visited the elements leaves (query-manager.js:133)
passResult(done, cache, normalizers) ==
  [c |-> done.c, st |-> done.st, hasLocalMatch |-> done.hit,
   cache |-> CacheAfter(cache, done.seen, normalizers)]

\* the strings a call hands to applyNormalizers before it comes to a text node
termSet(terms) == {terms[i] : i \in 1..Len(terms)}

\* no text node's replaceWith raises an exception
NoFailures == {}

\* lines 95-133 of highlightMatches on the container as reset and snapshot,
\* fails being the text nodes (by their text) whose replaceWith raises
passOver(clean, query, options, cache, presets, fails) ==
  IF IsBlank(query)
    THEN [c |-> clean, st |-> "ok", hasLocalMatch |-> FALSE, cache |-> cache]
    ELSE passResult(
           forEachHighlightEl(clean, Step0(termSet(termsOf(query.s, options))),
             [cache |-> cache, exact |-> options.exactMatch,
              normalizers |-> resolveNormalizers(presets, options.normalizers),
              terms |-> normalizedTermsOf(cache, presets, query.s, options),
              fails |-> fails]),
           cache, resolveNormalizers(presets, options.normalizers))

highlightClean(clean, query, options, cache, presets) ==
  passOver(clean, query, options, cache, presets, NoFailures)

\* highlightMatches(container, query, options) (query-manager.js:85-134):
\*   c: the container's content when the call ends, st: "ok" (it returned),
\*   "throw" or "diverge", hasLocalMatch: what it returned, cache: the
\*   normalization cache when it ends
highlightMatches(content, query, options, cache, presets) ==
  highlightClean(takeSnapshots(resetHighlights(content)), query, options, cache, presets)

\* the same call on a page where replaceWith raises for the text nodes fails
highlightMatchesFailing(content, query, options, cache, presets, fails) ==
  passOver(takeSnapshots(resetHighlights(content)), query, options, cache, presets, fails)

----------------------------------------------------------------------------
(* Direct calls of the highlighter on one container *)

EmptyCache == [k \in {} |-> <<>>]

\* options objects a caller passes
DefaultOptions == Options(FALSE, FALSE, NoNormalizers)
StoryCustom == ArraySpec(<<PresetSpec("default"), FunctionSpec("aToO")>>)
OtherCustom == ArraySpec(<<PresetSpec("default"), FunctionSpec("bToA")>>)

HLOptions ==
  {DefaultOptions,
   Options(TRUE, FALSE, PresetSpec("strict")),
   Options(FALSE, TRUE, StoryCustom),
   Options(TRUE, FALSE, OtherCustom)}

HLQueries ==
  {Undefined, Str(<<" ">>),
   Str(<<"a">>), Str(<<"a", "b", " ", "b">>), Str(<<"!">>), Str(<<"(">>)}

\* the containers: pristine markup, as the page's author wrote it
Containers ==
  {<<Highlight(<<Text(<<"a", "b", " ", "a">>), Plain(<<Text(<<"b", "a">>)>>)>>)>>,
   <<Highlight(<<Text(<<"a", " ">>), Highlight(<<Text(<<"a", "b">>)>>)>>)>>,
   <<Text(<<"a", "b">>), Highlight(<<Text(<<"a", "ß">>)>>), Highlight(<<Text(<<"B", "!">>)>>)>>,
   <<Highlight(<<Text(<<"a", " ", "&", "l", "t", ";", "b">>)>>)>>}

\* the bound on the entries of the normalization cache a run lets pile up
MaxCacheEntries == 3

NoPass == [op |-> "none", query |-> Undefined, options |-> DefaultOptions,
           st |-> "ok", hasLocalMatch |-> FALSE, pristine |-> <<>>, snapshots |-> FALSE,
           again |-> FALSE, undone |-> FALSE, fails |-> NoFailures]

NoLocate == [done |-> FALSE]

\* a page without mixinQuerySync elements
NoTargets == [t \in {} |-> Undefined]
NoSources == [i \in {} |-> Undefined]

\* a page on which submitFormToEndpoint is not called
NoForm == [pc |-> "none"]

\* a page without <my-collapse-list>
NoList == [singleOpen |-> FALSE, items |-> <<>>]

\* a page without <animated-display>
NoDisplay == [queueMode |-> FALSE]

InitHL ==
  /\ InitStore
  /\ targets = NoTargets
  /\ form = NoForm
  /\ collapse = NoList
  /\ display = NoDisplay
  /\ sources = NoSources
  /\ locate = NoLocate
  /\ normalizationCache = EmptyCache
  /\ normalizerPresets = InitialPresets
  /\ dom \in Containers
  /\ pass = [NoPass EXCEPT !.pristine = innerHTML(dom)]

\* a script never gets to run again once a call of it does not end
Running == pass.st # "diverge"

\* the step leaves the container and the cache as the call that ended as r did
Highlighted(query, options, r) ==
  /\ Cardinality(DOMAIN r.cache) <= MaxCacheEntries
  /\ dom' = r.c
  /\ normalizationCache' = r.cache
  /\ pass' = [pass EXCEPT !.op = "highlightMatches", !.query = query,
                          !.options = options, !.st = r.st,
                          !.hasLocalMatch = r.hasLocalMatch, !.snapshots = TRUE,
                          !.undone = FALSE,
                          !.again = /\ pass.op = "highlightMatches"
                                    /\ pass.st = "ok"
                                    /\ pass.query = query
                                    /\ pass.options = options]

\* highlightMatches(container, query, options) called by the host page
HighlightCall ==
  \E query \in HLQueries, options \in HLOptions :
    /\ Running
    /\ Highlighted(query, options,
                   highlightMatches(dom, query, options, normalizationCache, normalizerPresets))
    /\ UNCHANGED <<storeVars, normalizerPresets, locate, targets, sources, form, collapse, display>>

\* resetHighlights(container) called by the host page
ResetCall ==
  /\ Running
  /\ dom' = resetHighlights(dom)
  /\ pass' = [pass EXCEPT !.op = "resetHighlights", !.st = "ok", !.again = FALSE,
                          !.undone = innerHTML(dom) # innerHTML(resetHighlights(dom))]
  /\ UNCHANGED <<storeVars, normalizationCache, normalizerPresets, locate, targets, sources, form, collapse, display>>

\* clearNormalizationCache() (query-manager.js:13-15)
ClearCacheCall ==
  /\ Running
  /\ normalizationCache' = EmptyCache
  /\ pass' = [pass EXCEPT !.op = "clearNormalizationCache", !.st = "ok",
                          !.again = FALSE, !.undone = FALSE]
  /\ UNCHANGED <<storeVars, normalizerPresets, dom, locate, targets, sources, form, collapse, display>>

NextHL == HighlightCall \/ ResetCall \/ ClearCacheCall

SpecHL == InitHL /\ [][NextHL]_vars

\* C2: calling highlightMatches(container, Q, options) twice in a row leaves
\* the container's content as the first call left it and returns the same
\* hasLocalMatch.
C2_Idempotent ==
  [][(/\ pass.op = "highlightMatches"
      /\ pass.st = "ok"
      /\ pass'.op = "highlightMatches"
      /\ pass'.query = pass.query
      /\ pass'.options = pass.options)
     => (/\ pass'.st = "ok"
         /\ innerHTML(dom') = innerHTML(dom)
         /\ pass'.hasLocalMatch = pass.hasLocalMatch)]_vars

\* the same call made twice in a row on a container it marks
C2_Witness ==
  /\ pass.op = "highlightMatches"
  /\ pass.again
  /\ pass.hasLocalMatch

\* the elements carrying data-highlight of a content, at any depth
RECURSIVE highlightElements(_)
highlightElements(content) ==
  IF content = <<>> THEN {}
  ELSE (IF Head(content).t = "div" THEN {Head(content)} ELSE {})
         \cup highlightElements(Head(content).c)
         \cup highlightElements(Tail(content))

\* C3: after any number of highlightMatches calls with any queries,
\* resetHighlights(container) gives every [data-highlight] element the
\* content it had when a highlight pass first came to it.
C3_ResetRoundTrip ==
  (pass.op = "resetHighlights" /\ pass.snapshots) =>
    /\ innerHTML(dom) = pass.pristine
    /\ \A el \in highlightElements(dom) : HasOriginal(el) => innerHTML(el.c) = el.orig.s

\* a reset that took marks out of the container
C3_Witness ==
  /\ pass.op = "resetHighlights"
  /\ pass.snapshots
  /\ pass.undone

\* C16: no query string makes a highlight pass throw: an error raised while
\* normalizing or matching a text node stays inside highlightMatches, which
\* returns to its caller with the container showing its original unmarked
\* text.
C16_ErrorsContained ==
  pass.op = "highlightMatches" =>
    /\ pass.st # "throw"
    /\ pass.st = "ok" \/ innerHTML(dom) = pass.pristine

\* a markup without the <mark> tags
stripMarks(html) == SelectSeq(html, LAMBDA tok : tok \notin {"<mark>", "</mark>"})

\* C25: the fragments that replace a matched text node, concatenated in
\* order, equal that text node's original text, and text nodes without a
\* match, sibling nodes and ancestor markup are left unchanged: the markup of
\* the container after a pass is, but for the <mark> tags, the markup it had
\* before any pass.
C25_TextPreserved ==
  (pass.op = "highlightMatches" /\ pass.st = "ok") =>
    stripMarks(innerHTML(dom)) = pass.pristine

\* the entries originalHTMLCache holds for the [data-highlight] elements of
\* a content, in document order
RECURSIVE snapshots(_)
snapshots(content) ==
  IF content = <<>> THEN <<>>
  ELSE (IF Head(content).t = "div" THEN <<Head(content).orig>> ELSE <<>>)
         \o snapshots(Head(content).c) \o snapshots(Tail(content))

\* the innerHTML of the [data-highlight] elements of a content, in document
\* order
RECURSIVE contents(_)
contents(content) ==
  IF content = <<>> THEN <<>>
  ELSE (IF Head(content).t = "div" THEN <<Str(innerHTML(Head(content).c))>> ELSE <<>>)
         \o contents(Head(content).c) \o contents(Tail(content))

\* every snapshot of S that was taken is the original content P has for
\* the element, without <mark>; with all, every snapshot was taken
snapshotsAre(S, P, all) ==
  /\ Len(S) = Len(P)
  /\ \A i \in 1..Len(S) :
       IF S[i].js = "string"
         THEN S[i] = P[i] /\ \A j \in 1..Len(S[i].s) : S[i].s[j] # "<mark>"
         ELSE ~all

\* C26: the original-content snapshot of a designated element is written at
\* the first highlight pass that comes to the element, is taken from content
\* without highlighter-inserted <mark>, and is never changed by a later
\* highlight or reset: after a pass every designated element has a snapshot,
\* and a snapshot is at all times the content the element had before any
\* pass.
C26_SnapshotOnce ==
  pass.snapshots =>
    snapshotsAre(snapshots(dom), contents(parseHTML(pass.pristine)),
                 pass.op = "highlightMatches")

\* a second pass in a row marked a container with nested designated elements
C26_Witness ==
  /\ pass.op = "highlightMatches"
  /\ pass.again
  /\ pass.hasLocalMatch
  /\ Len(snapshots(dom)) >= 2

\* a <mark> stands inside another <mark> of the content
RECURSIVE markInMark(_, _)
markInMark(content, inside) ==
  \E i \in 1..Len(content) :
    \/ content[i].t = "mark" /\ inside
    \/ markInMark(content[i].c, inside \/ content[i].t = "mark")

\* C27: after a highlight pass every matched occurrence is wrapped in
\* exactly one <mark>: no <mark> is nested inside another <mark>, also when
\* [data-highlight] elements are nested inside one another.
C27_NoNestedMark ==
  (pass.op = "highlightMatches" /\ pass.st = "ok") => ~markInMark(dom, FALSE)

\* C22: every highlightMatches call with a non-blank query terminates, for
\* every option set and normalizer chain, chains that map a query term to the
\* empty string included.
C22_PassTerminates ==
  (pass.op = "highlightMatches" /\ ~IsBlank(pass.query)) => pass.st # "diverge"

----------------------------------------------------------------------------
(* Highlight passes on a page where replaceWith raises for some text nodes *)

\* the text nodes whose node.replaceWith raises an exception
FailSets ==
  SUBSET {<<"a", "b", " ", "a">>, <<"b", "a">>, <<"a", " ">>}

FailQueries == {Str(<<"a">>), Str(<<"b">>), Str(<<"b", " ", "!">>)}

FailOptions == {DefaultOptions, OptionsA}

\* the step leaves the container and the cache as the call that ended as r did
HighlightedFailing(query, options, fails, r) ==
  /\ Cardinality(DOMAIN r.cache) <= MaxCacheEntries
  /\ dom' = r.c
  /\ normalizationCache' = r.cache
  /\ pass' = [pass EXCEPT !.op = "highlightMatches", !.query = query,
                          !.options = options, !.st = r.st,
                          !.hasLocalMatch = r.hasLocalMatch, !.snapshots = TRUE,
                          !.undone = FALSE, !.again = FALSE, !.fails = fails]

\* highlightMatches(container, query, options) called by the host page while
\* replaceWith raises for the text nodes fails
FailingHighlightCall ==
  \E query \in FailQueries, options \in FailOptions, fails \in FailSets :
    /\ Running
    /\ HighlightedFailing(query, options, fails,
                          highlightMatchesFailing(dom, query, options, normalizationCache,
                                                  normalizerPresets, fails))
    /\ UNCHANGED <<storeVars, normalizerPresets, locate, targets, sources, form, collapse, display>>

NextFailing == FailingHighlightCall \/ ResetCall \/ ClearCacheCall

SpecFailing == InitHL /\ [][NextFailing]_vars

\* the text of the text nodes below a [data-highlight] element and outside
\* every <mark>
RECURSIVE looseTexts(_, _)
looseTexts(content, designated) ==
  IF content = <<>> THEN {}
  ELSE looseTexts(Tail(content), designated) \cup
       (IF Head(content).t = "text"
          THEN (IF designated /\ Head(content).s # <<>> THEN {Head(content).s} ELSE {})
        ELSE IF Head(content).t = "mark" THEN {}
        ELSE looseTexts(Head(content).c, designated \/ Head(content).t = "div"))

\* the last pass finds a match in the text s
stillMatches(s) ==
  getMarkedHTML(EmptyCache, s,
                normalizedTermsOf(EmptyCache, normalizerPresets, pass.query.s, pass.options),
                pass.options.exactMatch,
                resolveNormalizers(normalizerPresets, pass.options.normalizers)).html # s

\* C17: if replacing a text node fails during a highlight pass, the failure
\* is caught (the pass returns), every other text node with a match is still
\* marked, and hasLocalMatch is true exactly when at least one node was
\* replaced.
C17_ReplaceFailureCaught ==
  pass.op = "highlightMatches" =>
    /\ pass.st = "ok"
    /\ \A s \in looseTexts(dom, FALSE) \ pass.fails : ~stillMatches(s)
    /\ pass.hasLocalMatch <=> innerHTML(dom) # pass.pristine

\* a text node with a match could not be replaced and another node of the
\* same pass was
C17_Witness ==
  /\ pass.op = "highlightMatches"
  /\ \E s \in looseTexts(dom, FALSE) \cap pass.fails : stillMatches(s)
  /\ pass.hasLocalMatch

----------------------------------------------------------------------------
(* The preset registry (query-manager.js:48-70) *)

\* Array.isArray(steps) && !steps.some(fn => typeof fn !== 'function')
IsArrayOfFunctions(steps) ==
  /\ steps.js = "array"
  /\ \A i \in 1..Len(steps.items) : steps.items[i].js = "function"

\* the functions of an array of functions
stepsOf(steps) == [i \in 1..Len(steps.items) |-> steps.items[i].fn]

\* a registration that checks nothing: what is not an array of functions
\* registers as a preset without steps
registerUnchecked(presets, name, steps) ==
  [st |-> "ok",
   warned |-> name \in DOMAIN presets,
   presets |-> [n \in DOMAIN presets \cup {name} |->
                  IF n # name THEN presets[n]
                  ELSE IF IsArrayOfFunctions(steps) THEN stepsOf(steps) ELSE <<>>]]

\* registerNormalizerPreset(name, steps) (query-manager.js:62-70) on the
\* registry presets: st is "throw" or "ok", warned whether it warned of an
\* overwrite, presets the registry when the call ends
registerNormalizerPreset(presets, name, steps) ==
  IF ~IsArrayOfFunctions(steps)
    THEN [st |-> "throw", warned |-> FALSE, presets |-> presets]
    ELSE [st |-> "ok",
          warned |-> name \in DOMAIN presets,
          presets |-> [n \in DOMAIN presets \cup {name} |->
                         IF n = name THEN stepsOf(steps) ELSE presets[n]]]

\* the names and the steps a page registers presets with
RegisterNames == {"default", "mine"}

RegisterSteps ==
  {Undefined, PresetSpec("strict"), FunctionSpec("aToO"),
   ArraySpec(<<>>),
   ArraySpec(<<FunctionSpec("aToO")>>),
   ArraySpec(<<FunctionSpec("bToA"), FunctionSpec("aToO")>>),
   ArraySpec(<<FunctionSpec("aToO"), PresetSpec("strict")>>),
   ArraySpec(<<Undefined>>)}

InitPresets ==
  /\ InitStore
  /\ targets = NoTargets
  /\ form = NoForm
  /\ collapse = NoList
  /\ display = NoDisplay
  /\ sources = NoSources
  /\ locate = NoLocate
  /\ normalizationCache = EmptyCache
  /\ normalizerPresets = InitialPresets
  /\ dom = <<>>
  /\ pass = NoPass

\* the step leaves the registry as the call that ended as r did
Registered(name, steps, r) ==
  /\ normalizerPresets' = r.presets
  /\ calls' = [calls EXCEPT !.last = [NoCall EXCEPT !.op = "registerNormalizerPreset",
                                                   !.key = name, !.value = steps,
                                                   !.st = r.st, !.renewed = r.warned]]

\* registerNormalizerPreset(name, steps) called by the host page
RegisterCall ==
  \E name \in RegisterNames, steps \in RegisterSteps :
    /\ Registered(name, steps, registerNormalizerPreset(normalizerPresets, name, steps))
    /\ UNCHANGED <<queryStore, listeners, queryOptions, unsubs, normalizationCache,
                   dom, pass, locate, targets, sources, form, collapse, display>>

NextPresets == RegisterCall

SpecPresets == InitPresets /\ [][NextPresets]_vars

\* the step is a call of registerNormalizerPreset
RegisterStep == calls'.last.op = "registerNormalizerPreset"

\* the registry after a call that returned holds the steps under the name and
\* every other preset as before
registeredAs(before, after, name, steps) ==
  /\ DOMAIN after = DOMAIN before \cup {name}
  /\ resolveNormalizers(after, PresetSpec(name)) = stepsOf(steps)
  /\ \A n \in DOMAIN before \ {name} : after[n] = before[n]

\* C18: registerNormalizerPreset(name, steps) throws unless steps is a
\* non-empty array whose every element is a function, and when it throws the
\* preset registry is left unchanged.
C18_ThrowsUnlessNonEmpty ==
  [][RegisterStep =>
       /\ calls'.last.st = "throw" <=>
            ~(IsArrayOfFunctions(calls'.last.value) /\ calls'.last.value.items # <<>>)
       /\ calls'.last.st = "throw" => normalizerPresets' = normalizerPresets]_vars

\* C18 as the code has it: registerNormalizerPreset(name, steps) throws
\* unless steps is an array whose every element is a function, the empty
\* array included, which registers a preset without steps; when it throws
\* the preset registry is left unchanged, and when it returns the registry
\* holds the steps under the name.
C18_ThrowsUnlessArrayOfFunctions ==
  [][RegisterStep =>
       /\ calls'.last.st = "throw" <=> ~IsArrayOfFunctions(calls'.last.value)
       /\ calls'.last.st = "throw" => normalizerPresets' = normalizerPresets
       /\ calls'.last.st = "ok" =>
            registeredAs(normalizerPresets, normalizerPresets', calls'.last.key,
                         calls'.last.value)]_vars

\* a call with an array holding a string threw, on a registry that holds a
\* preset registered with the empty array
C18_Witness ==
  /\ calls.last.op = "registerNormalizerPreset"
  /\ calls.last.st = "throw"
  /\ calls.last.value = ArraySpec(<<FunctionSpec("aToO"), PresetSpec("strict")>>)
  /\ "mine" \in DOMAIN normalizerPresets
  /\ normalizerPresets["mine"] = <<>>

----------------------------------------------------------------------------
(* Calls of applyNormalizers (query-manager.js:165-171) one after another,
   on a registry the page may change between them *)

NormTexts == {<<"a">>, <<"a", "b">>}

NormSpecs ==
  {NoNormalizers, PresetSpec("mine"), FunctionSpec("aToO"), FunctionSpec("bToA")}

\* the step records the call applyNormalizers(text, normalizers) and what it
\* returned
Normalized(text, normalizers) ==
  /\ Cardinality(DOMAIN CacheAfter(normalizationCache, {text}, normalizers)) <= MaxCacheEntries
  /\ normalizationCache' = CacheAfter(normalizationCache, {text}, normalizers)
  /\ locate' = [done |-> TRUE, text |-> text, normalizers |-> normalizers,
                returned |-> applyNormalizers(normalizationCache, text, normalizers)]

\* applyNormalizers(text, resolveNormalizers(spec)), as highlightMatches and
\* getMarkedHTML call it (query-manager.js:98-99, :176)
NormalizeCall ==
  \E text \in NormTexts, spec \in NormSpecs :
    /\ Normalized(text, resolveNormalizers(normalizerPresets, spec))
    /\ UNCHANGED <<storeVars, normalizerPresets, dom, pass, targets, sources, form, collapse, display>>

\* the steps the page registers, and registers again, the preset "mine" with
MineSteps == {ArraySpec(<<FunctionSpec("aToO")>>), ArraySpec(<<FunctionSpec("bToA")>>)}

\* registerNormalizerPreset('mine', steps) called between two normalizations
RegisterMineCall ==
  \E steps \in MineSteps :
    /\ Registered("mine", steps, registerNormalizerPreset(normalizerPresets, "mine", steps))
    /\ UNCHANGED <<queryStore, listeners, queryOptions, unsubs, normalizationCache,
                   dom, pass, locate, targets, sources, form, collapse, display>>

NextNormalize == NormalizeCall \/ RegisterMineCall \/ ClearCacheCall

SpecNormalize == InitPresets /\ [][NextNormalize]_vars

\* C23: applyNormalizers(text, transforms) returns the result of applying
\* the transforms in order to text, after any sequence of earlier calls with
\* other texts, other transform chains or re-registered presets.
C23_MemoizedIsPlain ==
  locate.done => locate.returned = Reduce(locate.normalizers, locate.text)

----------------------------------------------------------------------------
(* One call of getMarkedHTML, as highlightMatches makes it for a text node *)

LocTexts ==
  {<<"m", "a", "n", "l", "y", " ", "a", " ", "m", "a", "n", ".">>,
   <<"a", "b", "a">>,
   <<"a", " ", "a", " ", "a">>,
   <<"a", "ß", " ", "a", "b">>,
   <<"A", "B", " ", "a", "b", "a", "b">>,
   <<"b", "a", "a", "a">>}

LocQueries ==
  {<<"m", "a", "n">>, <<"a">>, <<"a", "a">>, <<"a", "b">>, <<"a", "b", " ", "b", "a">>,
   <<"a", " ", "a">>, <<"b", " ", "a", "b">>, <<"s", " ", "!">>, <<"A", "b", " ", "(">>}

LocOptions ==
  {Options(split, exact, norm) :
     split \in BOOLEAN, exact \in BOOLEAN,
     norm \in {NoNormalizers, PresetSpec("strict"), StoryCustom, FunctionSpec("aToO")}}

InitLocate ==
  /\ InitStore
  /\ targets = NoTargets
  /\ form = NoForm
  /\ collapse = NoList
  /\ display = NoDisplay
  /\ sources = NoSources
  /\ normalizationCache = EmptyCache
  /\ normalizerPresets = InitialPresets
  /\ dom = <<>>
  /\ pass = NoPass
  /\ \E text \in LocTexts, query \in LocQueries, options \in LocOptions :
       locate = [done |-> FALSE, text |-> text, query |-> query, options |-> options]

\* the step records what getMarkedHTML computed: the normalized terms, the
\* ranges r and the markup built from them
Located(terms, r) ==
  locate' = [done |-> TRUE, text |-> locate.text, query |-> locate.query,
             options |-> locate.options, terms |-> terms, st |-> r.st,
             normText |-> r.normText, matches |-> r.matches,
             ranges |-> r.ranges, html |-> markedHTML(locate.text, r).html]

\* the terms and the ranges of the call of getMarkedHTML
LocatedIn(terms, normalizers) ==
  Located(terms, acceptedRanges(normalizationCache, locate.text, terms,
                                locate.options.exactMatch, normalizers))

\* lines 97-99 and 119 of highlightMatches for one text node
LocateCall ==
  /\ ~locate.done
  /\ LocatedIn(normalizedTermsOf(normalizationCache, normalizerPresets,
                                 locate.query, locate.options),
               resolveNormalizers(normalizerPresets, locate.options.normalizers))
  /\ normalizationCache' =
       CacheAfter(normalizationCache,
                  termSet(termsOf(locate.query, locate.options)) \cup {locate.text},
                  resolveNormalizers(normalizerPresets, locate.options.normalizers))
  /\ UNCHANGED <<storeVars, normalizerPresets, dom, pass, targets, sources, form, collapse, display>>

NextLocate == LocateCall

SpecLocate == InitLocate /\ [][NextLocate]_vars

Returned == locate.done /\ locate.st = "ok"

\* C5: the ranges getMarkedHTML turns into <mark> spans are sorted by start
\* offset ascending and pairwise non-overlapping: each accepted range ends at
\* or before the start of the next one.
C5_NonOverlap ==
  Returned =>
    \A i \in 1..(Len(locate.ranges) - 1) :
      /\ locate.ranges[i].index <= locate.ranges[i + 1].index
      /\ locate.ranges[i].index + locate.ranges[i].length <= locate.ranges[i + 1].index

\* a call that found overlapping matches, dropped one and kept two or more
C5_Witness ==
  /\ Returned
  /\ Len(locate.ranges) >= 2
  /\ Len(locate.matches) > Len(locate.ranges)

\* the term stands in normText at the 0-based offset i
OccursAt(normText, term, i) ==
  /\ i + Len(term) <= Len(normText)
  /\ \A j \in 1..Len(term) : SameCharI(normText[i + j], term[j])

\* the characters around normText[i .. i+len) are no word characters
Bounded(normText, i, len) ==
  /\ (i = 0 \/ ~IsWordChar(normText[i]))
  /\ (i + len = Len(normText) \/ ~IsWordChar(normText[i + len + 1]))

ManText == <<"m", "a", "n", "l", "y", " ", "a", " ", "m", "a", "n", ".">>
ManOnce == <<"m", "a", "n", "l", "y", " ", "a", " ", "<mark>", "m", "a", "n", "</mark>", ".">>
ManTwice == <<"<mark>", "m", "a", "n", "</mark>", "l", "y", " ", "a", " ",
              "<mark>", "m", "a", "n", "</mark>", ".">>

EqualI(a, b) == Len(a) = Len(b) /\ \A j \in 1..Len(a) : SameCharI(a[j], b[j])

\* the characters of the original text the <mark> of range r wraps
markedText(r) == substring(locate.text, r.index, r.index + r.length)

\* C24: every <mark> wraps the characters of the original text that
\* correspond to the match: the normalized form of the marked substring of
\* the original text is a normalized query term (as the case-insensitive
\* pattern compares them), for every normalizer chain, chains that change
\* the length of the text included.
C24_MarksTheMatch ==
  Returned =>
    \A i \in 1..Len(locate.ranges) :
      \E k \in 1..Len(locate.terms) :
        EqualI(Reduce(resolveNormalizers(normalizerPresets, locate.options.normalizers),
                      markedText(locate.ranges[i])),
               locate.terms[k])

----------------------------------------------------------------------------
(* The query store used by callers whose callbacks leave the store alone *)

InitQueryStore ==
  /\ InitStore
  /\ targets = NoTargets
  /\ form = NoForm
  /\ collapse = NoList
  /\ display = NoDisplay
  /\ sources = NoSources
  /\ normalizationCache = EmptyCache
  /\ normalizerPresets = InitialPresets
  /\ dom = <<>>
  /\ pass = NoPass
  /\ locate = NoLocate

SetQueryCall ==
  \E key \in StoreKeys, value \in StoreValues, options \in StoreOptions :
    SetQuery(key, value, options) /\ UNCHANGED <<hlVars, locate, targets, sources, form, collapse, display>>

SubscribeCall ==
  \E key \in StoreKeys, cb \in Callbacks :
    SubscribeQuery(key, cb) /\ UNCHANGED <<hlVars, locate, targets, sources, form, collapse, display>>

UnsubscribeCall ==
  \E key \in StoreKeys, cb \in Callbacks :
    Unsubscribe(key, cb) /\ UNCHANGED <<hlVars, locate, targets, sources, form, collapse, display>>

NextStore == SetQueryCall \/ SubscribeCall \/ UnsubscribeCall

SpecStore == InitQueryStore /\ [][NextStore]_vars

\* C1: setQuery(key, value, options) invokes, before it returns, every
\* callback subscribed to key, each with the new value and the key's current
\* options, in the order in which the callbacks were subscribed.
C1_NotifyInOrder ==
  calls.last.op = "setQuery" =>
    LET subs == listeners[calls.last.key]
    IN /\ Len(calls.last.invoked) = Len(subs)
       /\ \A i \in 1..Len(subs) :
            /\ calls.last.invoked[i].cb = subs[i]
            /\ calls.last.invoked[i].value = calls.last.value
            /\ calls.last.invoked[i].value = getQuery(calls.last.key)
            /\ calls.last.invoked[i].options = getQueryOptions(calls.last.key)

\* a setQuery without options that notified cb2 before cb1 with stored options
C1_Witness ==
  /\ calls.last.op = "setQuery"
  /\ calls.last.options = Undefined
  /\ Len(calls.last.invoked) = 2
  /\ calls.last.invoked[1].cb = "cb2"
  /\ calls.last.invoked[1].options = OptionsB

\* C8 as stated: getQuery(key) and getQueryOptions(key) return the value and
\* the options argument of the most recent setQuery call for the key, and
\* undefined for a key never set.
C8_LastArguments ==
  \A key \in StoreKeys :
    /\ getQuery(key) = calls.args[key].value
    /\ getQueryOptions(key) = calls.args[key].options

\* C8 amended: getQuery(key) returns the value of the most recent setQuery
\* call for the key; getQueryOptions(key) returns the options of the most
\* recent setQuery call for the key that passed options; both are undefined
\* when there was no such call.
C8_LastGivenOptions ==
  \A key \in StoreKeys :
    /\ getQuery(key) = calls.args[key].value
    /\ getQueryOptions(key) = calls.args[key].given
    /\ ~calls.args[key].set => (getQuery(key) = Undefined /\ getQueryOptions(key) = Undefined)

\* options were stored for a key and its latest setQuery passed none
C8_Witness ==
  \E key \in StoreKeys :
    /\ calls.args[key].set
    /\ calls.args[key].options = Undefined
    /\ getQueryOptions(key) = OptionsA
    /\ \E other \in StoreKeys : ~calls.args[other].set

\* the step is a call of an unsubscribe function
UnsubscribeStep == calls'.last.op = "unsubscribe" /\ calls'.last # calls.last

\* the step is a call of setQuery
SetQueryStep == calls'.last.op = "setQuery"

Without(subs, cb) == SelectSeq(subs, LAMBDA x : x # cb)

\* C9: the function subscribeQuery(key, cb) returned removes exactly cb from
\* key's subscribers: a later setQuery(key, ...) does not invoke cb for as
\* long as it is not subscribed again, and every other subscription of key
\* and of every other key stays and is notified.
C9_UnsubscribeExactly ==
  [][/\ UnsubscribeStep =>
          /\ listeners'[calls'.last.key] = Without(listeners[calls'.last.key], calls'.last.cb)
          /\ \A key \in StoreKeys \ {calls'.last.key} : listeners'[key] = listeners[key]
     /\ SetQueryStep =>
          {calls'.last.invoked[i].cb : i \in 1..Len(calls'.last.invoked)}
            = {listeners[calls'.last.key][i] : i \in 1..Len(listeners[calls'.last.key])}]_vars

\* cb1 was unsubscribed from k1, cb2 was not, and a setQuery("k1") reached cb2 alone
C9_Witness ==
  /\ calls.last.op = "setQuery"
  /\ calls.last.key = "k1"
  /\ <<"k1", "cb1">> \in DOMAIN unsubs
  /\ unsubs[<<"k1", "cb1">>] = "called"
  /\ listeners["k2"] = <<"cb1">>
  /\ Len(calls.last.invoked) = 1
  /\ calls.last.invoked[1].cb = "cb2"

\* the step calls an unsubscribe function that was called before
SecondUnsubscribeStep == UnsubscribeStep /\ calls'.last.second

\* C10: a second call of an unsubscribe function is a no-op: it leaves the
\* subscribers of every key unchanged, whatever subscribeQuery calls happened
\* between the first call and the second.
C10_SecondCallNoOp ==
  [][SecondUnsubscribeStep => listeners' = listeners]_vars

\* C11: setQuery(k1, ...) invokes no callback through a subscription to a
\* different key k2, and leaves getQuery(k2) and getQueryOptions(k2) as they
\* were.
C11_OtherKeysUntouched ==
  [][SetQueryStep =>
       /\ Len(calls'.last.invoked) = Len(listeners[calls'.last.key])
       /\ \A i \in 1..Len(calls'.last.invoked) :
            \E j \in 1..Len(listeners[calls'.last.key]) :
              calls'.last.invoked[i].cb = listeners[calls'.last.key][j]
       /\ \A k2 \in StoreKeys \ {calls'.last.key} :
            /\ queryStore'[k2] = queryStore[k2]
            /\ queryOptions'[k2] = queryOptions[k2]
            /\ listeners'[k2] = listeners[k2]]_vars

\* setQuery("k1") ran while k2 held a value, options and a subscriber that k1
\* does not have
C11_Witness ==
  /\ calls.last.op = "setQuery"
  /\ calls.last.key = "k1"
  /\ calls.last.value = Str(<<"a">>)
  /\ getQuery("k2") = Str(<<"b">>)
  /\ getQueryOptions("k2") = OptionsB
  /\ listeners["k2"] = <<"cb2">>
  /\ listeners["k1"] = <<"cb1">>
  /\ Len(calls.last.invoked) = 1

----------------------------------------------------------------------------
(* The query store used by a caller one of whose callbacks writes to the
   store: the callback "again" is
     (v) => { if (v.length < MaxReentries) setQuery(key, v + 'b') }
   and the callbacks "cb1" and "cb2" leave the store alone.  A call of
   setQuery is then a nest of calls, each with its own value argument and its
   own forEach over the one Set of the key. *)

MaxReentries == 2

ReentrantKey == "k1"
ReentrantCallbacks == {"cb1", "cb2", "again"}
ReentrantValues == {Str(<<>>), Str(<<"a">>)}

\* the callback "again" calls setQuery when it is handed this value
Reenters(cb, value) == cb = "again" /\ Len(value.s) < MaxReentries

\* the value "again" hands to setQuery
Longer(value) == Str(value.s \o <<"b">>)

\* cb(value, queryOptions.get(key)) recorded (query-manager.js:27)
delivered(st, cb, value) ==
  [st EXCEPT !.log = Append(@, [cb |-> cb, value |-> value, options |-> Undefined])]

\* queryStore.set(key, value) (query-manager.js:24)
queryStoreSet(st, value) == [st EXCEPT !.store = value]

\* setQuery(key, value) (query-manager.js:23-28): st.store is queryStore.get(key),
\* st.log the calls of callbacks made so far; forEachFrom is the forEach of
\* line 27 from the i-th member of the Set on, value being the argument of the
\* call of setQuery the forEach belongs to
RECURSIVE forEachFrom(_, _, _, _)
forEachFrom(st, subs, i, value) ==
  IF i > Len(subs) THEN st
  ELSE IF Reenters(subs[i], value)
    THEN forEachFrom(forEachFrom(queryStoreSet(delivered(st, subs[i], value), Longer(value)),
                                 subs, 1, Longer(value)),
                     subs, i + 1, value)
    ELSE forEachFrom(delivered(st, subs[i], value), subs, i + 1, value)

setQuery(st, subs, value) == forEachFrom(queryStoreSet(st, value), subs, 1, value)

InitReentrant == InitQueryStore

Nested(key, value, r) ==
  /\ queryStore' = [queryStore EXCEPT ![key] = r.store]
  /\ calls' = [calls EXCEPT !.last = [NoCall EXCEPT !.op = "setQuery", !.key = key,
                                        !.value = value, !.invoked = r.log]]
  /\ UNCHANGED <<listeners, queryOptions, unsubs>>

\* an outermost call setQuery(key, value), up to its return
OutermostSetQuery ==
  \E value \in ReentrantValues :
    /\ Nested(ReentrantKey, value,
              setQuery([store |-> queryStore[ReentrantKey], log |-> <<>>],
                       listeners[ReentrantKey], value))
    /\ UNCHANGED <<hlVars, locate, targets, sources, form, collapse, display>>

ReentrantSubscribe ==
  \E cb \in ReentrantCallbacks :
    SubscribeQuery(ReentrantKey, cb) /\ UNCHANGED <<hlVars, locate, targets, sources, form, collapse, display>>

ReentrantUnsubscribe ==
  \E cb \in ReentrantCallbacks :
    Unsubscribe(ReentrantKey, cb) /\ UNCHANGED <<hlVars, locate, targets, sources, form, collapse, display>>

NextReentrant == OutermostSetQuery \/ ReentrantSubscribe \/ ReentrantUnsubscribe

SpecReentrant == InitReentrant /\ [][NextReentrant]_vars

\* the value of the last call of cb the log holds
lastDelivered(log, cb) ==
  log[CHOOSE i \in 1..Len(log) : log[i].cb = cb /\ \A j \in (i + 1)..Len(log) : log[j].cb # cb].value

\* C29: after an outermost setQuery(key, ...) has returned, the value most
\* recently delivered to each callback subscribed to key is getQuery(key),
\* also when a callback called setQuery for that key during the notification.
C29_LastDeliveredIsCurrent ==
  calls.last.op = "setQuery" =>
    \A i \in 1..Len(listeners[ReentrantKey]) :
      lastDelivered(calls.last.invoked, listeners[ReentrantKey][i]) = getQuery(ReentrantKey)

----------------------------------------------------------------------------
(* The elements built by mixinQuerySync (query-manager.js:212-257).  The page
   holds two targets, A and B; B is a child of A or out of the tree. *)

\* the key of a mixin configuration: highlight-target.js:12 and
\* query-input.js:12 both give null, and the callbacks close over it
MixinKey == "null"

\* highlightOptions of the <query-input> configuration, {} (query-input.js:13):
\* splitWords, exactMatch and normalizers read from it are undefined
SourceOptions == Options(FALSE, FALSE, NoNormalizers)

Targets == {"A", "B"}

\* a <query-input> when the page has set it up: key is its key property,
\* options its options property (query-input.js:15-23)
NewSource(key, options) == [key |-> key, options |-> options]

\* a || b on options objects
OrElse(a, b) == IF a.js = "undefined" THEN b ELSE a

\* a Boolean property after an assignment
Prop(b) == IF b THEN "true" ELSE "false"

\* what a target is when it is constructed
\*   root: "shadow" when renderRoot is the shadow root LitElement attaches
\*   (highlight-target.js:41-43 renders only <slot> into it), "light" when the
\*   Base's createRenderRoot returns the element itself
\*   key: the element's key property, set from its key attribute
\*   (highlight-target.js:14-16)
NewTarget(root, key, content) ==
  [root |-> root, key |-> key, connected |-> FALSE, inside |-> TRUE,
   content |-> content, page |-> content,
   hasQuery |-> "undefined", hasLocalMatch |-> "undefined",
   hasShadowMatch |-> "undefined", hasAnyMatch |-> "undefined",
   attrs |-> [hasQuery |-> FALSE, hasLocalMatch |-> FALSE,
              hasShadowMatch |-> FALSE, hasAnyMatch |-> FALSE]]

\* the nodes below this.renderRoot, in document order
renderRootContent(tg, t) ==
  IF tg[t].root = "shadow" THEN <<>>
  ELSE IF t = "A" /\ tg["B"].inside THEN tg["A"].content \o tg["B"].content
  ELSE tg[t].content

\* the page after a pass left c below t's renderRoot
withRenderRootContent(tg, t, c) ==
  IF tg[t].root = "shadow" THEN tg
  ELSE IF t = "A" /\ tg["B"].inside
    THEN [tg EXCEPT !["A"].content = SubSeq(c, 1, Len(tg["A"].content)),
                    !["B"].content = SubSeq(c, Len(tg["A"].content) + 1, Len(c))]
  ELSE [tg EXCEPT ![t].content = c]

\* renderRoot.querySelectorAll('[has-local-match]') is not empty
\* (query-manager.js:230-231)
hasShadowMarker(tg, t) ==
  /\ tg[t].root = "light"
  /\ t = "A"
  /\ tg["B"].inside
  /\ tg["B"].attrs.hasLocalMatch

\* the page after target t's highlight pass gave r: the render root is as the
\* pass left it, and when the pass returned the four properties are assigned
\* (query-manager.js:228-232, :238-242)
afterPass(tg, t, hasQuery, r) ==
  IF r.st # "ok"
    THEN [tg |-> withRenderRootContent(tg, t, r.c), cache |-> r.cache, st |-> r.st]
    ELSE [tg |-> [withRenderRootContent(tg, t, r.c) EXCEPT
                    ![t].hasQuery = hasQuery,
                    ![t].hasLocalMatch = Prop(r.hasLocalMatch),
                    ![t].hasShadowMatch = Prop(hasShadowMarker(tg, t)),
                    ![t].hasAnyMatch = Prop(r.hasLocalMatch \/ hasShadowMarker(tg, t))],
          cache |-> r.cache, st |-> "ok"]

\* the callback a target subscribes (query-manager.js:225-233), called with
\* (query, opts) while stored is queryOptions.get(key): hasQuery is assigned
\* before the pass runs
subscriberCallback(tg, t, query, opts, stored, cache, presets) ==
  afterPass([tg EXCEPT ![t].hasQuery = Prop(~IsBlank(query))], t, Prop(~IsBlank(query)),
            highlightMatches(renderRootContent(tg, t), query,
                             OrElse(opts, OrElse(stored, SourceOptions)), cache, presets))

\* the notification so far, after target t's callback ended as r
notified(acc, t, r) ==
  [tg |-> r.tg, cache |-> r.cache, st |-> r.st, invoked |-> Append(acc.invoked, t)]

\* subs.forEach(...) of setQuery over subscribed targets (query-manager.js:26-27):
\* an exception leaves the loop, a call that does not end ends nothing
RECURSIVE notifyTargets(_, _, _, _, _)
notifyTargets(subs, acc, query, opts, presets) ==
  IF subs = <<>> \/ acc.st # "ok" THEN acc
  ELSE notifyTargets(Tail(subs),
         notified(acc, Head(subs),
           subscriberCallback(acc.tg, Head(subs), query, opts, opts, acc.cache, presets)),
         query, opts, presets)

\* the eager pass of connectedCallback (query-manager.js:235-243)
eagerPass(tg, t, current, stored, cache, presets) ==
  IF ~Truthy(current) THEN [tg |-> tg, cache |-> cache, st |-> "ok"]
  ELSE afterPass(tg, t, Prop(~IsBlank(current)),
                 highlightMatches(renderRootContent(tg, t), current,
                                  OrElse(stored, SourceOptions), cache, presets))

\* the world after connectedCallback subscribed t and its eager pass ended as e
subscribed(w, t, e) ==
  [tg |-> e.tg, subs |-> SetAdd(w.subs, t), cache |-> e.cache,
   st |-> IF e.st = "ok" THEN w.st ELSE e.st]

\* connectedCallback of target t (query-manager.js:222-245), run on the
\* world w: tg the targets, subs the subscribers of MixinKey, cache, and st,
\* "ok" or how a callback run so far stopped
connectedCallback(w, t, current, stored, presets) ==
  IF w.st = "diverge" THEN w
  ELSE subscribed(w, t, eagerPass([w.tg EXCEPT ![t].connected = TRUE], t, current,
                                  stored, w.cache, presets))

\* a disconnectedCallback that leaves the callback in the store
staysSubscribed(w, t) ==
  IF w.st = "diverge" THEN w
  ELSE [w EXCEPT !.tg = [w.tg EXCEPT ![t].connected = FALSE]]

\* disconnectedCallback of target t (query-manager.js:247-250)
disconnectedCallback(w, t) ==
  IF w.st = "diverge" THEN w
  ELSE [w EXCEPT !.tg = [w.tg EXCEPT ![t].connected = FALSE],
                 !.subs = SetDelete(w.subs, t)]

\* the pages: what A and B hold when the document is parsed
Pages ==
  {[A |-> <<Highlight(<<Text(<<"b">>)>>)>>,
    B |-> <<Highlight(<<Text(<<"a", "b">>)>>)>>],
   [A |-> <<Highlight(<<Text(<<"a", " ", "b">>)>>)>>,
    B |-> <<Highlight(<<Plain(<<Text(<<"b">>)>>)>>)>>]}

RootKinds == {"shadow", "light"}

SyncValues ==
  {Undefined, Str(<<>>), Str(<<" ">>), Str(<<"a">>)}

\* the options argument of a setQuery call the host page makes itself
HostOptions == {Undefined}

InitSync ==
  /\ InitStoreOn({MixinKey})
  /\ normalizationCache = EmptyCache
  /\ normalizerPresets = InitialPresets
  /\ dom = <<>>
  /\ pass = NoPass
  /\ locate = NoLocate
  /\ \E page \in Pages, root \in RootKinds :
       targets = [t \in Targets |-> NewTarget(root, "k1", page[t])]
  /\ form = NoForm
  /\ collapse = NoList
  /\ display = NoDisplay
  /\ sources = [i \in {"q1"} |-> NewSource("k1", SourceOptions)]

\* a script never gets to run again once a callback does not end
SyncRunning == calls.last.st # "diverge"

World == [tg |-> targets, subs |-> listeners[MixinKey],
          cache |-> normalizationCache, st |-> "ok"]

\* the step leaves the page in world w after operation op
Becomes(w, op) ==
  /\ Cardinality(DOMAIN w.cache) <= MaxCacheEntries
  /\ targets' = w.tg
  /\ listeners' = [listeners EXCEPT ![MixinKey] = w.subs]
  /\ normalizationCache' = w.cache
  /\ calls' = [calls EXCEPT !.last = [NoCall EXCEPT !.op = op, !.key = MixinKey, !.st = w.st]]
  /\ UNCHANGED <<queryStore, queryOptions, unsubs, normalizerPresets, dom, pass, locate, sources, form, collapse, display>>

\* B's connectedCallback when B is in the tree that was connected
connectChild(w, present) ==
  IF present
    THEN connectedCallback(w, "B", getQuery(MixinKey), getQueryOptions(MixinKey),
                           normalizerPresets)
    ELSE w

\* B's disconnectedCallback when B is in the tree that was disconnected
disconnectChild(w, present) == IF present THEN disconnectedCallback(w, "B") ELSE w

\* the world once B is, or is no more, a child of A
withB(inside) == [World EXCEPT !.tg = [targets EXCEPT !["B"].inside = inside]]

\* A is put into the document: its connectedCallback runs, then B's when B
\* is its child
AttachA ==
  /\ SyncRunning
  /\ ~targets["A"].connected
  /\ Becomes(connectChild(connectedCallback(World, "A", getQuery(MixinKey),
                                            getQueryOptions(MixinKey), normalizerPresets),
                          targets["B"].inside),
             "attach")

\* A is taken out of the document, with B when B is its child
DetachA ==
  /\ SyncRunning
  /\ targets["A"].connected
  /\ Becomes(disconnectChild(disconnectedCallback(World, "A"), targets["B"].inside), "detach")

\* B is appended to A
InsertB ==
  /\ SyncRunning
  /\ ~targets["B"].inside
  /\ Becomes(connectChild(withB(TRUE), targets["A"].connected), "attach")

\* B is removed from A
RemoveB ==
  /\ SyncRunning
  /\ targets["B"].inside
  /\ Becomes(disconnectChild(withB(FALSE), targets["B"].connected), "detach")

\* innerHTML of a target's renderRoot, and what it was when the page was parsed
rootHTML(tg, t) == innerHTML(renderRootContent(tg, t))
pageHTML(tg, t) ==
  innerHTML(renderRootContent([x \in Targets |-> [tg[x] EXCEPT !.content = tg[x].page]], t))

\* marks stand below the render root of a subscribed target
marksStand == \E i \in 1..Len(listeners[MixinKey]) :
                rootHTML(targets, listeners[MixinKey][i]) # pageHTML(targets, listeners[MixinKey][i])

\* the step leaves the page as the notification acc of a setQuery left it
Published(source, acc) ==
  /\ Cardinality(DOMAIN acc.cache) <= MaxCacheEntries
  /\ targets' = acc.tg
  /\ normalizationCache' = acc.cache
  /\ calls' = [calls EXCEPT !.last = [NoCall EXCEPT !.op = "setQuery", !.key = MixinKey,
                                                   !.invoked = acc.invoked, !.st = acc.st,
                                                   !.undone = marksStand,
                                                   !.source = source]]

\* setQuery(MixinKey, value, options) (query-manager.js:23-28) with the
\* targets' callbacks run in the order the Set gives
Publish(source, value, options) ==
  /\ SyncRunning
  /\ queryStore' = [queryStore EXCEPT ![MixinKey] = value]
  /\ queryOptions' = [queryOptions EXCEPT ![MixinKey] = StoredOptions(@, options)]
  /\ Published(source, notifyTargets(listeners[MixinKey],
                             [tg |-> targets, cache |-> normalizationCache,
                              st |-> "ok", invoked |-> <<>>],
                             value, StoredOptions(queryOptions[MixinKey], options),
                             normalizerPresets))
  /\ UNCHANGED <<listeners, unsubs, normalizerPresets, dom, pass, locate, sources, form, collapse, display>>

\* updateQuery(value) of a <query-input> (query-manager.js:252-256)
UpdateQuery ==
  \E i \in DOMAIN sources, value \in SyncValues : Publish(i, value, SourceOptions)

\* setQuery called by the host page on the key the targets listen to
HostSetQuery ==
  \E value \in SyncValues, options \in HostOptions : Publish("host", value, options)

\* the reflected attributes an element's properties ask for
Reflected(tg) ==
  [hasQuery |-> tg.hasQuery = "true", hasLocalMatch |-> tg.hasLocalMatch = "true",
   hasShadowMatch |-> tg.hasShadowMatch = "true", hasAnyMatch |-> tg.hasAnyMatch = "true"]

\* the microtask in which Lit updates the elements whose properties changed
\* and reflects them to attributes (query-manager.js:215-220, reflect: true)
UpdateComplete ==
  /\ SyncRunning
  /\ \E t \in Targets : targets[t].attrs # Reflected(targets[t])
  /\ targets' = [t \in Targets |-> [targets[t] EXCEPT !.attrs = Reflected(targets[t])]]
  /\ calls' = [calls EXCEPT !.last.op = "updateComplete"]
  /\ UNCHANGED <<queryStore, listeners, queryOptions, unsubs, hlVars, locate, sources, form, collapse, display>>

\* clearNormalizationCache() called between two operations of the page
ClearCacheSync ==
  /\ SyncRunning
  /\ normalizationCache # EmptyCache
  /\ normalizationCache' = EmptyCache
  /\ calls' = [calls EXCEPT !.last = [NoCall EXCEPT !.op = "clearNormalizationCache",
                                                   !.key = MixinKey]]
  /\ UNCHANGED <<queryStore, listeners, queryOptions, unsubs, normalizerPresets,
                 dom, pass, locate, targets, sources, form, collapse, display>>

NextSync ==
  \/ AttachA \/ DetachA \/ InsertB \/ RemoveB
  \/ UpdateQuery \/ HostSetQuery \/ UpdateComplete \/ ClearCacheSync

SpecSync == InitSync /\ [][NextSync]_vars

\* the empty, the whitespace-only and the missing query
BlankValues == {Undefined, Str(<<>>), Str(<<" ">>)}

\* C4: for an empty, whitespace-only or missing query highlightMatches
\* returns hasLocalMatch false and leaves every designated element below the
\* container with its original unmarked content, whatever highlight was
\* applied before; every target notified with such a query ends with
\* hasQuery false and hasLocalMatch false.
C4_BlankQuery ==
  (calls.last.op = "setQuery" /\ getQuery(MixinKey) \in BlankValues) =>
    /\ calls.last.st = "ok"
    /\ \A i \in 1..Len(calls.last.invoked) :
         LET t == calls.last.invoked[i]
         IN /\ targets[t].hasQuery = "false"
            /\ targets[t].hasLocalMatch = "false"
            /\ rootHTML(targets, t) = pageHTML(targets, t)
            /\ \A el \in highlightElements(renderRootContent(targets, t)) :
                 HasOriginal(el) /\ innerHTML(el.c) = el.orig.s

\* a blank query reached both targets while marks stood below a render root
C4_Witness ==
  /\ calls.last.op = "setQuery"
  /\ getQuery(MixinKey) \in BlankValues
  /\ calls.last.undone
  /\ Len(calls.last.invoked) = 2

\* target t's own designated text matches the stored query under the options
\* its pass uses
ownTextMatches(t) ==
  highlightMatches(targets[t].page, getQuery(MixinKey),
                   OrElse(getQueryOptions(MixinKey), SourceOptions),
                   EmptyCache, normalizerPresets).hasLocalMatch

\* both targets were notified by the last setQuery, B being a child of A
BothProcessed ==
  /\ calls.last.op \in {"setQuery", "updateComplete"}
  /\ calls.last.invoked = <<"A", "B">>
  /\ calls.last.st = "ok"
  /\ targets["B"].inside

\* C6: A (outer) contains B (inner), both on the same key: if B's own
\* designated text matches the query and A's does not, then once both have
\* processed the query change A.hasShadowMatch and A.hasAnyMatch are true.
C6_AncestorPropagation ==
  (BothProcessed /\ ownTextMatches("B") /\ ~ownTextMatches("A")) =>
    (targets["A"].hasShadowMatch = "true" /\ targets["A"].hasAnyMatch = "true")

\* the page with every target's content as it was parsed
asParsed(tg) == [x \in Targets |-> [tg[x] EXCEPT !.content = tg[x].page]]

\* the pass target t's callback runs on the page as it was parsed when it is
\* notified of the stored query with the stored options
replay(tg, t) ==
  highlightMatches(renderRootContent(asParsed(tg), t), getQuery(MixinKey),
                   OrElse(getQueryOptions(MixinKey), SourceOptions),
                   EmptyCache, normalizerPresets)

\* target t is in the state its callback leaves for the stored query
asNotified(tg, t) ==
  /\ (tg[t].hasQuery = "true") <=> ~IsBlank(getQuery(MixinKey))
  /\ (tg[t].hasLocalMatch = "true") <=> replay(tg, t).hasLocalMatch
  /\ rootHTML(tg, t) = innerHTML(replay(tg, t).c)

\* a step that connected targets and whose callbacks returned
AttachStep == calls'.last.op = "attach" /\ calls'.last.st = "ok"

\* C14: each time a target attaches (first attach or re-attach) to a key that
\* already has a stored query value, its hasQuery, its hasLocalMatch and the
\* content below its render root after the attach are the ones a notification
\* with that value and the key's stored options leaves.
C14_AttachReplays ==
  [][(AttachStep /\ getQuery(MixinKey).js = "string") =>
       \A t \in Targets :
         (~targets[t].connected /\ targets'[t].connected) => asNotified(targets', t)]_vars

\* how many callbacks of target t the store holds for the key it subscribes to
registered(t) ==
  Cardinality({i \in 1..Len(listeners[MixinKey]) : listeners[MixinKey][i] = t})

\* C15: after any sequence of attach and detach events a target has exactly
\* one callback registered in the store while it is attached and none while
\* it is detached, and a setQuery made while it is detached changes neither
\* its match state nor its content.
C15_BoundWhileAttached ==
  /\ [](\A t \in Targets : registered(t) = IF targets[t].connected THEN 1 ELSE 0)
  /\ [][calls'.last.op = "setQuery" =>
          \A t \in Targets : ~targets[t].connected => targets'[t] = targets[t]]_vars

\* B was highlighted, then detached, and a later setQuery that cleared the
\* query reached A alone and left B's marks and match state as they were
C15_Witness ==
  /\ calls.last.op = "setQuery"
  /\ getQuery(MixinKey) = Str(<<>>)
  /\ calls.last.invoked = <<"A">>
  /\ ~targets["B"].connected
  /\ targets["B"].hasLocalMatch = "true"
  /\ targets["B"].content # targets["B"].page
  /\ registered("A") = 1
  /\ registered("B") = 0

\* the place of target t among the callbacks the last setQuery ran
calledAt(t) == CHOOSE i \in 1..Len(calls.last.invoked) : calls.last.invoked[i] = t

\* the last setQuery ran the callbacks of A and of B, B being a child of A
NestedNotified ==
  /\ calls.last.op = "setQuery"
  /\ calls.last.st = "ok"
  /\ targets["B"].inside
  /\ \A t \in Targets : \E i \in 1..Len(calls.last.invoked) : calls.last.invoked[i] = t

\* C21: when one setQuery notifies two targets on the same key of which one
\* is nested inside the other, the inner target's callback runs before the
\* outer one's, and the hasShadowMatch the outer target computes is the
\* hasLocalMatch the inner target has got from this notification.
C21_InnerBeforeOuter ==
  NestedNotified =>
    /\ calledAt("B") < calledAt("A")
    /\ targets["A"].hasShadowMatch = targets["B"].hasLocalMatch

\* the targets the last setQuery notified
Reached == {calls.last.invoked[i] : i \in 1..Len(calls.last.invoked)}

\* C28: after a change to the empty query has been processed by all targets
\* of the key, no target of the key has hasLocalMatch, hasShadowMatch or
\* hasAnyMatch true, whatever the previous query was and however the targets
\* are nested.
C28_EmptyClearsMatches ==
  (calls.last.op = "setQuery" /\ calls.last.st = "ok" /\ getQuery(MixinKey) = Str(<<>>)) =>
    \A t \in Reached :
      /\ targets[t].hasLocalMatch # "true"
      /\ targets[t].hasShadowMatch # "true"
      /\ targets[t].hasAnyMatch # "true"

----------------------------------------------------------------------------
(* Pages whose elements carry different key attributes *)

\* the page: A with key "k1" holds B; two <query-input> elements, q1 with key
\* "k1" and exact matching as its options property, q2 with key "k2"
ChannelPage ==
  [A |-> <<Highlight(<<Text(<<"b">>)>>)>>,
   B |-> <<Highlight(<<Text(<<"a", "b">>)>>)>>]

ChannelKeys == {"k1", "k2"}

InitChannels ==
  /\ InitStoreOn({MixinKey})
  /\ normalizationCache = EmptyCache
  /\ normalizerPresets = InitialPresets
  /\ dom = <<>>
  /\ pass = NoPass
  /\ locate = NoLocate
  /\ \E root \in RootKinds, keyB \in ChannelKeys :
       targets = [t \in Targets |->
                    NewTarget(root, IF t = "A" THEN "k1" ELSE keyB, ChannelPage[t])]
  /\ form = NoForm
  /\ collapse = NoList
  /\ display = NoDisplay
  /\ sources = [i \in {"q1", "q2"} |->
                  IF i = "q1" THEN NewSource("k1", OptionsB)
                  ELSE NewSource("k2", SourceOptions)]

SpecChannels == InitChannels /\ [][NextSync]_vars

\* the last operation was an updateQuery of a <query-input>
PublishedBySource == calls.last.op = "setQuery" /\ calls.last.source \in DOMAIN sources

\* C12: a query published by a <query-input> whose key is K reaches the
\* connected <highlight-target> elements whose key is K and no
\* <highlight-target> whose key differs from K.
C12_KeyChannels ==
  PublishedBySource =>
    \A t \in Targets :
      t \in Reached <=> (targets[t].connected /\ targets[t].key = sources[calls.last.source].key)

\* what a highlight pass with the given options leaves below target t's
\* render root when it starts from the page as it was parsed
markupUnder(t, options) ==
  innerHTML(highlightMatches(
              renderRootContent([x \in Targets |-> [targets[x] EXCEPT !.content = targets[x].page]], t),
              getQuery(MixinKey), options, EmptyCache, normalizerPresets).c)

\* C13: the options configured on a source element (its options property) are
\* the options updateQuery passes to setQuery, and so the options the
\* highlight pass of every notified target used.
C13_SourceOptions ==
  PublishedBySource =>
    /\ getQueryOptions(MixinKey) = sources[calls.last.source].options
    /\ calls.last.st = "ok" =>
         \A t \in Reached :
           rootHTML(targets, t) = markupUnder(t, sources[calls.last.source].options)

----------------------------------------------------------------------------
(* submitFormToEndpoint (1.form-submitFormToEndpoint.js:42-160).  A call is
   followed from statement to statement, so that what the page holds while a
   hook runs can be told from what it holds when the call is over.  The
   record form keeps
     pc: the statement the call is at, "idle" before and "done" after it,
     opts: the options of the call,
     created: let form is assigned, attached: the form is in the document,
     seen: what onBeforeSubmit found, outcome: "return" or "throw". *)

NullEntry == [js |-> "null"]
Field(name) == [js |-> "object", name |-> name]

\* the options of a call: action, fields, how form.submit() ends and what
\* the three hooks do when they are given
FormActions == {Undefined, Str(<<>>), Str(<<"/", "x">>)}

FormFields ==
  {Undefined, ArraySpec(<<>>), ArraySpec(<<Field(<<"a">>)>>),
   ArraySpec(<<Field(<<>>), Field(<<"b">>)>>), ArraySpec(<<Field(<<"a">>), NullEntry>>)}

BeforeHooks == {"absent", "returns", "throws", "detaches"}
AfterHooks == {"absent", "returns", "throws"}
ErrorHooks == {"absent", "returns", "throws"}
SubmitEnds == {"returns", "throws"}

FormOptions ==
  [action : FormActions, fields : FormFields, submit : SubmitEnds,
   onBeforeSubmit : BeforeHooks, onAfterSubmit : AfterHooks, onError : ErrorHooks]

IdleForm ==
  [pc |-> "idle", opts |-> Undefined, created |-> FALSE, attached |-> FALSE,
   inputs |-> <<>>, seen |-> "none", submitted |-> FALSE, outcome |-> "none"]

\* the call starts: let form (1.form-submitFormToEndpoint.js:42-63)
called(opts) == [IdleForm EXCEPT !.pc = "validate", !.opts = opts]

\* the two checks of lines 67-72
validate(f) ==
  IF \/ ~Truthy(f.opts.action)
     \/ f.opts.fields.js # "array"
     \/ f.opts.fields.items = <<>>
    THEN [f EXCEPT !.pc = "catch"]
    ELSE [f EXCEPT !.pc = "build"]

\* the names of the hidden inputs the loop of lines 112-121 appends for the
\* fields before position n: an entry without a name is passed by
RECURSIVE hiddenInputs(_, _)
hiddenInputs(items, n) ==
  IF n = 0 THEN <<>>
  ELSE IF items[n].name = <<>> THEN hiddenInputs(items, n - 1)
  ELSE Append(hiddenInputs(items, n - 1), items[n].name)

\* the first entry that cannot be destructured, or one past the last entry
firstNull(items) ==
  IF \E i \in 1..Len(items) : items[i].js = "null"
    THEN CHOOSE i \in 1..Len(items) :
           items[i].js = "null" /\ \A j \in 1..(i - 1) : items[j].js # "null"
    ELSE Len(items) + 1

\* lines 75-124: the form is created and filled, then appended to the host;
\* destructuring a null entry of fields throws before the form is appended
build(f) ==
  IF firstNull(f.opts.fields.items) <= Len(f.opts.fields.items)
    THEN [f EXCEPT !.created = TRUE,
                   !.inputs = hiddenInputs(f.opts.fields.items,
                                           firstNull(f.opts.fields.items) - 1),
                   !.pc = "catch"]
    ELSE [f EXCEPT !.created = TRUE,
                   !.inputs = hiddenInputs(f.opts.fields.items, Len(f.opts.fields.items)),
                   !.attached = TRUE,
                   !.pc = "onBeforeSubmit"]

\* lines 127-131: the hook, whose exception is ignored; a hook may take the
\* form it is handed out of the document
beforeHook(f) ==
  IF f.opts.onBeforeSubmit = "absent" THEN [f EXCEPT !.pc = "submit"]
  ELSE [f EXCEPT !.seen = IF f.attached THEN "attached" ELSE "detached",
                 !.attached = f.attached /\ f.opts.onBeforeSubmit # "detaches",
                 !.pc = "submit"]

\* line 134, form.submit(), and the focus of lines 137-144 whose exception
\* is ignored
submit(f) ==
  IF f.opts.submit = "throws" THEN [f EXCEPT !.pc = "catch"]
  ELSE [f EXCEPT !.submitted = TRUE, !.pc = "onAfterSubmit"]

\* lines 147-151: the hook, whose exception is ignored; the try block ends
afterHook(f) == [f EXCEPT !.outcome = "return", !.pc = "finally"]

\* lines 152-154: onError, whose exception is ignored, then throw err
catch(f) == [f EXCEPT !.outcome = "throw", !.pc = "finally"]

\* a finally block that leaves the form where it is
noCleanup(f) == [f EXCEPT !.pc = "done"]

\* lines 155-158: form?.remove()
cleanup(f) == [f EXCEPT !.attached = FALSE, !.pc = "done"]

InitForm ==
  /\ InitStore
  /\ normalizationCache = EmptyCache
  /\ normalizerPresets = InitialPresets
  /\ dom = <<>>
  /\ pass = NoPass
  /\ locate = NoLocate
  /\ targets = NoTargets
  /\ sources = NoSources
  /\ collapse = NoList
  /\ display = NoDisplay
  /\ form = IdleForm

\* the statement the call is at runs
FormStep(pc, next) ==
  /\ form.pc = pc
  /\ form' = next
  /\ UNCHANGED <<storeVars, hlVars, locate, targets, sources, collapse, display>>

SubmitFormCall ==
  \E opts \in FormOptions :
    /\ form.pc \in {"idle", "done"}
    /\ form' = called(opts)
    /\ UNCHANGED <<storeVars, hlVars, locate, targets, sources, collapse, display>>

Validate == FormStep("validate", validate(form))
Build == FormStep("build", build(form))
OnBeforeSubmit == FormStep("onBeforeSubmit", beforeHook(form))
Submit == FormStep("submit", submit(form))
OnAfterSubmit == FormStep("onAfterSubmit", afterHook(form))
Catch == FormStep("catch", catch(form))
Finally == FormStep("finally", cleanup(form))

NextForm ==
  \/ SubmitFormCall \/ Validate \/ Build \/ OnBeforeSubmit
  \/ Submit \/ OnAfterSubmit \/ Catch \/ Finally

SpecForm == InitForm /\ [][NextForm]_vars

\* C19: submitFormToEndpoint attaches its temporary form to the host before
\* onBeforeSubmit runs, and removes it before the call returns or throws:
\* after the call no form it created is in the document, whether the
\* submission succeeded, a hook threw, or validation failed.
C19_TemporaryForm ==
  /\ form.seen # "detached"
  /\ form.pc = "done" => ~form.attached

\* a call whose onBeforeSubmit found the form in the document and whose
\* onAfterSubmit threw has returned
C19_Witness ==
  /\ form.pc = "done"
  /\ form.outcome = "return"
  /\ form.seen = "attached"
  /\ form.submitted
  /\ form.opts.onAfterSubmit = "throws"
  /\ form.opts.onBeforeSubmit = "throws"

----------------------------------------------------------------------------
(* <my-collapse-list> and its <my-collapse-item> children (collapse-list,
   collapse-item.js).  collapse.items are the items in document order, each
   with its open property and its data-index attribute; collapse.last tells
   what the last operation was. *)

\* Number(undefined), what an item without data-index puts in the detail of
\* its toggle event: NaN, which is not equal to any index
NaN == -1

\* a <my-collapse-item> once it is connected (collapse-item.js:21-32)
NewItem(id, initialOpen) == [id |-> id, open |-> initialOpen, index |-> NaN]

\* the getter items of the list (collapse-list:22-30): every item gets its
\* position as data-index
items(list) == [i \in 1..Len(list) |-> [list[i] EXCEPT !.index = i - 1]]

\* item.closeByList() (collapse-item.js:51-62)
closeByList(item) == [item EXCEPT !.open = FALSE]

\* a list that closes nothing when an item opens
closesNone(list, index) == list

\* this.items.forEach((item, i) => { if (i !== index && item.open)
\* item.closeByList(); }) (collapse-list:78-80)
closeOthers(list, index) ==
  [i \in 1..Len(list) |->
     IF i - 1 # index /\ items(list)[i].open THEN closeByList(items(list)[i])
     ELSE items(list)[i]]

\* the toggle listener of the list (collapse-list:70-84) for the event
\* detail { index, open }; emitStateChange reads items
onToggle(singleOpen, list, index, open) ==
  IF singleOpen /\ open THEN items(closeOthers(list, index)) ELSE items(list)

\* item.toggle() of the item at position k (collapse-item.js:34-49) and the
\* toggle event it dispatches to the list
toggle(singleOpen, list, k) ==
  onToggle(singleOpen, [list EXCEPT ![k].open = ~list[k].open],
           list[k].index, ~list[k].open)

\* closeAll() (collapse-list:38-41)
closeAll(list) == [i \in 1..Len(list) |-> closeByList(items(list)[i])]

\* openAll() (collapse-list:32-36)
openAll(singleOpen, list) ==
  IF singleOpen THEN list
  ELSE [i \in 1..Len(list) |-> [items(list)[i] EXCEPT !.open = TRUE]]

\* open(index) (collapse-list:43-55); index may name no item
open(singleOpen, list, index) ==
  IF singleOpen
    THEN [i \in 1..Len(list) |->
            IF i - 1 = index THEN [closeAll(list)[i] EXCEPT !.open = TRUE]
            ELSE closeAll(list)[i]]
    ELSE [i \in 1..Len(list) |->
            IF i - 1 = index THEN [items(list)[i] EXCEPT !.open = TRUE]
            ELSE items(list)[i]]

\* the items of the page and whether each has the initialOpen attribute
ItemIds == {"i1", "i2", "i3"}
ItemOrder == <<"i1", "i2", "i3">>

NoOp == [op |-> "none", id |-> "none", opened |-> FALSE]

InitCollapse ==
  /\ InitStore
  /\ normalizationCache = EmptyCache
  /\ normalizerPresets = InitialPresets
  /\ dom = <<>>
  /\ pass = NoPass
  /\ locate = NoLocate
  /\ targets = NoTargets
  /\ sources = NoSources
  /\ form = NoForm
  /\ display = NoDisplay
  /\ \E singleOpen \in BOOLEAN, initialOpen \in [ItemIds -> BOOLEAN] :
       collapse = [singleOpen |-> singleOpen,
                   items |-> [i \in 1..Len(ItemOrder) |->
                                NewItem(ItemOrder[i], initialOpen[ItemOrder[i]])],
                   last |-> NoOp]

\* the step leaves the list with the items list after operation op on item id
Collapsed(list, op, id, opened) ==
  /\ collapse' = [collapse EXCEPT !.items = list,
                                  !.last = [op |-> op, id |-> id, opened |-> opened]]
  /\ UNCHANGED <<storeVars, hlVars, locate, targets, sources, form, display>>

\* the user clicks the toggle button of an item (collapse-item.js:117-121)
ToggleClick ==
  \E k \in 1..Len(collapse.items) :
    Collapsed(toggle(collapse.singleOpen, collapse.items, k), "toggle",
              collapse.items[k].id, ~collapse.items[k].open)

\* the user clicks the container of a closed item (collapse-item.js:71-75)
ContainerClick ==
  \E k \in 1..Len(collapse.items) :
    /\ ~collapse.items[k].open
    /\ Collapsed(toggle(collapse.singleOpen, collapse.items, k), "toggle",
                 collapse.items[k].id, TRUE)

\* the page calls list.open(index)
OpenCall ==
  \E index \in 0..Len(collapse.items) :
    Collapsed(open(collapse.singleOpen, collapse.items, index), "open", "none", FALSE)

\* the page calls list.closeAll()
CloseAllCall == Collapsed(closeAll(collapse.items), "closeAll", "none", FALSE)

\* the page calls list.openAll()
OpenAllCall ==
  Collapsed(openAll(collapse.singleOpen, collapse.items), "openAll", "none", FALSE)

\* the page moves the last item of the list before the first
MoveItem ==
  Collapsed(<<collapse.items[Len(collapse.items)]>>
              \o SubSeq(collapse.items, 1, Len(collapse.items) - 1),
            "move", "none", FALSE)

NextCollapse ==
  \/ ToggleClick \/ ContainerClick \/ OpenCall \/ CloseAllCall \/ OpenAllCall \/ MoveItem

SpecCollapse == InitCollapse /\ [][NextCollapse]_vars

\* C20: in a <my-collapse-list> with singleOpen set, after a user toggles a
\* closed item open, that item is open and every other item of the list is
\* closed.
C20_SingleOpen ==
  (collapse.singleOpen /\ collapse.last.op = "toggle" /\ collapse.last.opened) =>
    \A k \in 1..Len(collapse.items) :
      collapse.items[k].open <=> collapse.items[k].id = collapse.last.id

----------------------------------------------------------------------------
(* <animated-display> in queue mode (animated-display/AnimatedDisplay.js,
   animated-display/utils.js), as the WithQueue story uses it: once, delay and
   the blink animation are off, nobody pauses the element and nothing calls
   hide() or updateContent().  The show() calls are numbered in the order
   they are made.  A step is one task of the event loop with the microtasks
   it leaves behind: a call of show(), or a timer that fires.  A timer fires
   some time after it was set; the order in which the timers of two
   executors fire is open, since duration, transitionDuration and gapBetween
   are properties of the element.

   display.queue and display.running are the queue and the flag of
   createQueue; display.current is _current, Null or the number of the show()
   call whose promise it holds; display.promise[i] is the promise show()
   returned to call i; display.executor[i] is the place the executor of
   _run's promise for call i has reached. *)

MaxShows == 4

Null == 0
Shows == 1..MaxShows

\* gapBetween="300" of the story, and gapBetween="0"
GapValues == {0, 300}

\* the element after its constructor, with the queue attribute set
NewDisplay(gapBetween) ==
  [queueMode |-> TRUE, gapBetween |-> gapBetween,
   queue |-> <<>>, running |-> FALSE, current |-> Null,
   visible |-> FALSE, isHiding |-> FALSE, displayVisible |-> FALSE, hasShown |-> FALSE,
   promise |-> [i \in Shows |-> "none"],
   displayed |-> [i \in Shows |-> FALSE],
   executor |-> [i \in Shows |-> "none"]]

\* _queueManager.push(task) (utils.js:28-30) with the promise of AnimatedDisplay.js:71
push(d, i) == [d EXCEPT !.queue = Append(@, i), !.promise[i] = "pending"]

\* _run up to the first await of its executor (AnimatedDisplay.js:137-157)
started(d, i) ==
  [d EXCEPT !.hasShown = TRUE, !.displayVisible = TRUE, !.visible = TRUE,
            !.displayed[i] = TRUE, !.executor[i] = "showing", !.current = i]

\* the rest of the task of call i once action() has settled (AnimatedDisplay.js:74)
settled(d, i) == [d EXCEPT !.promise[i] = "resolved"]

\* the while loop of run (utils.js:20-24) from its test on: a task whose _run
\* returns at once (AnimatedDisplay.js:130) settles in the same step, a task
\* whose _run starts an executor suspends the loop
RECURSIVE while(_)
while(d) ==
  IF d.queue = <<>> THEN [d EXCEPT !.running = FALSE]
  ELSE IF d.visible \/ d.isHiding
    THEN while(settled([d EXCEPT !.queue = Tail(@)], Head(d.queue)))
    ELSE started([d EXCEPT !.queue = Tail(@)], Head(d.queue))

\* run() of createQueue (utils.js:17-25)
run(d) ==
  IF d.running \/ d.queue = <<>> THEN d ELSE while([d EXCEPT !.running = TRUE])

\* show() in queue mode (AnimatedDisplay.js:63-83)
show(d, i) == IF push(d, i).current = Null THEN run(push(d, i)) ELSE push(d, i)

\* the executor after waitWithPause (AnimatedDisplay.js:159-162)
hideStart(d, i) == [d EXCEPT !.isHiding = TRUE, !.visible = FALSE, !.executor[i] = "hiding"]

\* the executor after sleep(transitionDuration), up to its next await or its
\* end (AnimatedDisplay.js:164-173)
hideEnd(d, i) ==
  IF d.queueMode /\ d.gapBetween # 0
    THEN [d EXCEPT !.isHiding = FALSE, !.displayVisible = FALSE, !.executor[i] = "gap"]
    ELSE [d EXCEPT !.isHiding = FALSE, !.displayVisible = FALSE, !.executor[i] = "done",
                   !.current = Null]

\* the executor after sleep(gapBetween) (AnimatedDisplay.js:173)
gapEnd(d, i) == [d EXCEPT !.current = Null, !.executor[i] = "done"]

InitDisplay ==
  /\ InitStore
  /\ targets = NoTargets
  /\ sources = NoSources
  /\ form = NoForm
  /\ collapse = NoList
  /\ normalizationCache = EmptyCache
  /\ normalizerPresets = InitialPresets
  /\ dom = <<>>
  /\ pass = NoPass
  /\ locate = NoLocate
  /\ \E gapBetween \in GapValues : display = NewDisplay(gapBetween)

Displays(d) ==
  /\ display' = d
  /\ UNCHANGED <<storeVars, hlVars, locate, targets, sources, form, collapse>>

\* the page calls show(): the calls are numbered as they come
ShowCall ==
  \E i \in Shows :
    /\ display.promise[i] = "none"
    /\ \A j \in 1..(i - 1) : display.promise[j] # "none"
    /\ Displays(show(display, i))

\* the last timer of waitWithPause fires (utils.js:46-56)
DurationElapsed ==
  \E i \in Shows :
    /\ display.executor[i] = "showing"
    /\ Displays(hideStart(display, i))

\* the timer of sleep(transitionDuration) fires; resolve() lets the task of
\* call i go on, and the loop of run with it
TransitionElapsed ==
  \E i \in Shows :
    /\ display.executor[i] = "hiding"
    /\ Displays(while(settled(hideEnd(display, i), i)))

\* the timer of sleep(gapBetween) fires
GapElapsed ==
  \E i \in Shows :
    /\ display.executor[i] = "gap"
    /\ Displays(gapEnd(display, i))

NextDisplay == ShowCall \/ DurationElapsed \/ TransitionElapsed \/ GapElapsed

SpecDisplay == InitDisplay /\ [][NextDisplay]_vars

\* every timer that was set fires
SpecDisplayLive ==
  /\ SpecDisplay
  /\ WF_vars(DurationElapsed) /\ WF_vars(TransitionElapsed) /\ WF_vars(GapElapsed)

\* C30: in queue mode, every show() call is eventually displayed and the
\* promise it returned eventually resolves, whenever the call is made: while
\* a display runs, during the gapBetween pause, or when the element is idle.
C30_EveryShowResolves ==
  \A i \in Shows :
    (display.promise[i] = "pending") ~>
      (display.promise[i] = "resolved" /\ display.displayed[i])

====
